---- MODULE Spec2Model ----
(***************************************************************************)
(* A model of the thermal shell element (TACSThermalShellElement.h) and of *)
(* the average-temperature function (TACSAverageTemperature.cpp) of TACS.  *)
(*                                                                         *)
(* Scalars (TacsScalar, double) are modelled by integers with exact        *)
(* arithmetic; the one division of the program, getFunctionValue, is       *)
(* modelled by an exact quotient with the IEEE results of a division by    *)
(* zero (NaN, +Inf, -Inf).                                                 *)
(***************************************************************************)
EXTENDS Integers, Sequences, FiniteSets, TLC

(***************************************************************************)
(* Bounds of the model.                                                    *)
(***************************************************************************)
\* Number of MPI processes of the assembler's communicator.
NumProcs == 2
\* Largest number of quadrature points of an element handed to the function.
MaxQuad == 2
\* Largest number of elementWiseEval calls on one process between two
\* initEvaluation calls.
MaxEvals == 1
\* Largest number of finalEvaluation calls on one process between two
\* initEvaluation calls.
MaxFinals == 2
\* Largest number of MPI_Allreduce operations of a run.
MaxCollectives == 2
\* Number of element objects and largest number of constructions.
MaxElems == 3
MaxConstructions == 4
\* Largest reference count a caller holds on a collaborator of its own.
MaxCallerRefs == 1
\* Number of threads that call member functions of elements side by side.
NumThreads == 2

VARIABLES
  \* ---- TACSAverageTemperature, one object per MPI process ----
  volume,         \* [Procs -> Int]  the member volume
  integral_temp,  \* [Procs -> Int]  the member integral_temp
  apc,            \* [Procs -> {"ready","allreduce"}] position of the process
  sendbuf,        \* [Procs -> [set, v, t]] temp[] handed to MPI_Allreduce
  taken,          \* [Procs -> BOOLEAN] the process has received result[]
  ncoll,          \* number of MPI_Allreduce operations started so far
  \* history of the calls made on each process since its last initEvaluation
  hist,           \* [Procs -> {"new","init","reducing","final","off"}]
  nevals,         \* [Procs -> 0..MaxEvals]
  nfinals,        \* [Procs -> 0..MaxFinals]
  gvol,           \* [Procs -> Int] sum of detJ*weight over contributing points
  gint,           \* [Procs -> Int] sum of detJ*weight*temp over the same points
  gposV,          \* [Procs -> Int] sum of detJ*weight over the contributing
                  \*                points of positive measure only
  gshell,         \* [Procs -> BOOLEAN] a thermal shell element has been
                  \*                handed over
  \* ---- reference counts of the collaborators ----
  refcount,       \* [Collaborators -> Nat]
  callerRefs,     \* [Collaborators -> Nat] references held by the caller
  live,           \* [ElemIds -> [alive, transform, con]] the element objects
  nconstructed,   \* number of constructions so far
  ecall,          \* [Threads -> call] the member-function call of each thread
  epc,            \* [Threads -> phase] where each call is
  equad,          \* [Threads -> Nat] the loop counter quad_index of each call
  scratch,        \* [Threads -> frame] the automatic arrays of each call
  out,            \* [Threads -> [res, mat, data, Te, Ue]] the caller's arrays
  \* ---- the sensitivities of TACSAverageTemperature ----
  sens,           \* the sensitivity call that has returned and whose result
                  \* the caller has not yet taken
  cyc,            \* [Procs -> stage] how far the process is in the calls
                  \* initEvaluation, finalEvaluation, finalEvaluation
  tvol,           \* [Procs -> Int] sum of detJ*weight over the points that
                  \* have contributed since the last initEvaluation
  tint            \* [Procs -> Int] sum of detJ*weight*temp over the same points

aggVars == <<volume, integral_temp, apc, sendbuf, taken, ncoll, hist, nevals, nfinals,
             gvol, gint, gposV, gshell>>
lifeVars == <<refcount, callerRefs, live, nconstructed>>
elemVars == <<ecall, epc, equad, scratch, out>>
sensVars == <<sens, cyc, tvol, tint>>
allVars == <<aggVars, lifeVars, elemVars, sensVars>>

NoVal == "none"
NaN == "NaN"
PosInf == "+Inf"
NegInf == "-Inf"

(***************************************************************************)
(* Exact arithmetic helpers.                                               *)
(***************************************************************************)
Abs(x) == IF x < 0 THEN -x ELSE x

RECURSIVE GCD(_, _)
GCD(a, b) == IF b = 0 THEN a ELSE GCD(b, a % b)

\* The value of the floating-point division n/d: a reduced fraction num/den
\* (den > 0), or the IEEE result of a division by zero.
Divide(n, d) ==
  IF d = 0
    THEN [kind |-> IF n = 0 THEN NaN ELSE IF n > 0 THEN PosInf ELSE NegInf,
          num |-> 0, den |-> 0]
    ELSE LET g == GCD(Abs(n), Abs(d))
             s == IF d < 0 THEN -1 ELSE 1
         IN  [kind |-> "finite", num |-> (s * n) \div g, den |-> (s * d) \div g]

RECURSIVE SumOver(_, _)
SumOver(f, S) ==
  IF S = {} THEN 0
  ELSE LET x == CHOOSE y \in S : TRUE IN f[x] + SumOver(f, S \ {x})

(***************************************************************************)
(* TACSAverageTemperature                                                  *)
(***************************************************************************)
Procs == 1..NumProcs

\* The data an element hands to the function at one quadrature point:
\* the quadrature weight, the Jacobian determinant of getJacobianTransform,
\* and what evalPointQuantity(TACS_TEMPERATURE) returns (count and value).
\* Two points of a valid geometry where the element evaluates the quantity
\* (count 1) with different measures and temperatures, a point of an inverted
\* geometry (detJ < 0), and a point where the element evaluates nothing
\* (count 0, whatever the other data).
Points ==
  { [weight |-> 1, detJ |-> 1, temp |-> 0, count |-> 1],
    [weight |-> 2, detJ |-> 1, temp |-> 3, count |-> 1],
    [weight |-> 1, detJ |-> -1, temp |-> 3, count |-> 1],
    [weight |-> 1, detJ |-> 1, temp |-> 0, count |-> 0] }

PointSeqs == UNION {[1..n -> Points] : n \in 0..MaxQuad}

\* Elements handed to elementWiseEval.  A "Generic" element is any TACSElement
\* that may or may not have a basis; "ThermalShell" is TACSThermalShellElement,
\* whose pts are its quadrature points (positive measure, the temperature
\* interpolated from the nodal temperatures).
GenericElements ==
  [kind : {"Generic"}, basis : {TRUE}, pts : PointSeqs]
    \cup [kind : {"Generic"}, basis : {FALSE}, pts : {<<>>}]
ShellPoints == {p \in Points : p.detJ > 0 /\ p.count = 1}
ShellElements ==
  [kind : {"ThermalShell"}, basis : {FALSE},
   pts : UNION {[1..n -> ShellPoints] : n \in 1..MaxQuad}]
Elements == GenericElements \cup ShellElements

\* element->getElementBasis(): TACSThermalShellElement declares no basis
\* object and does not override the query.
getElementBasis(element) ==
  IF element.kind = "ThermalShell" THEN FALSE ELSE element.basis

\* element->evalPointQuantity(elemIndex, TACS_TEMPERATURE, ..., &temp): the
\* count returned and the value written.  TACSThermalShellElement does not
\* override it: no quantity is evaluated and temp keeps its initial 0.0.
evalPointQuantity(element, i) ==
  IF element.kind = "ThermalShell"
    THEN [count |-> 0, temp |-> 0]
    ELSE [count |-> element.pts[i].count,
          temp |-> IF element.pts[i].count >= 1 THEN element.pts[i].temp ELSE 0]

\* The loop of elementWiseEval over the quadrature points i..n of the basis,
\* started with the accumulators acc = <<volume, integral_temp>>.
RECURSIVE EvalLoop(_, _, _)
EvalLoop(element, i, acc) ==
  IF i > Len(element.pts) THEN acc
  ELSE LET weight == element.pts[i].weight
           q == evalPointQuantity(element, i)
           detJ == element.pts[i].detJ
       IN  IF q.count >= 1
             THEN EvalLoop(element, i + 1,
                           <<acc[1] + detJ * weight,
                             acc[2] + detJ * weight * q.temp>>)
             ELSE EvalLoop(element, i + 1, acc)

elementWiseEvalResult(element, acc) ==
  IF getElementBasis(element) THEN EvalLoop(element, 1, acc) ELSE acc

\* What the points of an element contribute by the function's definition:
\* the sums over its contributing points (count >= 1), those of positive
\* measure among them, and whether one of non-positive measure occurs.
Contributing(element) ==
  IF element.kind = "Generic" /\ element.basis
    THEN {i \in 1..Len(element.pts) : element.pts[i].count >= 1}
    ELSE {}
Measure(element, i) == element.pts[i].detJ * element.pts[i].weight
RECURSIVE SumMeasure(_, _, _)
SumMeasure(element, S, withTemp) ==
  IF S = {} THEN 0
  ELSE LET i == CHOOSE j \in S : TRUE
       IN  Measure(element, i) * (IF withTemp THEN element.pts[i].temp ELSE 1)
           + SumMeasure(element, S \ {i}, withTemp)
Positive(element) == {i \in Contributing(element) : Measure(element, i) > 0}

\* getFunctionValue with a test of the divisor before the division.
getFunctionValueGuarded(p) ==
  IF volume[p] = 0 THEN Divide(0, 1) ELSE Divide(integral_temp[p], volume[p])

getFunctionValue(p) == Divide(integral_temp[p], volume[p])

NoBuf == [set |-> FALSE, v |-> 0, t |-> 0]

AggInit ==
  /\ volume = [p \in Procs |-> 0]
  /\ integral_temp = [p \in Procs |-> 0]
  /\ apc = [p \in Procs |-> "ready"]
  /\ sendbuf = [p \in Procs |-> NoBuf]
  /\ taken = [p \in Procs |-> FALSE]
  /\ ncoll = 0
  /\ hist = [p \in Procs |-> "new"]
  /\ nevals = [p \in Procs |-> 0]
  /\ nfinals = [p \in Procs |-> 0]
  /\ gvol = [p \in Procs |-> 0]
  /\ gint = [p \in Procs |-> 0]
  /\ gposV = [p \in Procs |-> 0]
  /\ gshell = [p \in Procs |-> FALSE]

\* The sums of the history are kept only while the calls since the last
\* initEvaluation form (a prefix of) one evaluation cycle.
ForgetHistory(p) ==
  /\ gvol' = [gvol EXCEPT ![p] = 0]
  /\ gint' = [gint EXCEPT ![p] = 0]
  /\ gposV' = [gposV EXCEPT ![p] = 0]
  /\ gshell' = [gshell EXCEPT ![p] = FALSE]

\* initEvaluation without its two assignments.
initEvaluationKeep(p) ==
  /\ apc[p] = "ready"
  /\ hist' = [hist EXCEPT ![p] = "init"]
  /\ nevals' = [nevals EXCEPT ![p] = 0]
  /\ nfinals' = [nfinals EXCEPT ![p] = 0]
  /\ gvol' = [gvol EXCEPT ![p] = 0]
  /\ gint' = [gint EXCEPT ![p] = 0]
  /\ gposV' = [gposV EXCEPT ![p] = 0]
  /\ gshell' = [gshell EXCEPT ![p] = FALSE]
  /\ UNCHANGED <<volume, integral_temp, apc, sendbuf, taken, ncoll>>

initEvaluation(p) ==
  /\ apc[p] = "ready"
  /\ integral_temp' = [integral_temp EXCEPT ![p] = 0]
  /\ volume' = [volume EXCEPT ![p] = 0]
  /\ hist' = [hist EXCEPT ![p] = "init"]
  /\ nevals' = [nevals EXCEPT ![p] = 0]
  /\ nfinals' = [nfinals EXCEPT ![p] = 0]
  /\ gvol' = [gvol EXCEPT ![p] = 0]
  /\ gint' = [gint EXCEPT ![p] = 0]
  /\ gposV' = [gposV EXCEPT ![p] = 0]
  /\ gshell' = [gshell EXCEPT ![p] = FALSE]
  /\ UNCHANGED <<apc, sendbuf, taken, ncoll>>

elementWiseEval(p, element) ==
  /\ apc[p] = "ready"
  /\ nevals[p] < MaxEvals
  /\ LET r == elementWiseEvalResult(element, <<volume[p], integral_temp[p]>>)
     IN  /\ volume' = [volume EXCEPT ![p] = r[1]]
         /\ integral_temp' = [integral_temp EXCEPT ![p] = r[2]]
  /\ nevals' = [nevals EXCEPT ![p] = @ + 1]
  /\ hist' = [hist EXCEPT ![p] = IF @ = "init" THEN "init" ELSE "off"]
  /\ IF hist[p] = "init"
       THEN /\ gvol' = [gvol EXCEPT ![p] =
                  @ + SumMeasure(element, Contributing(element), FALSE)]
            /\ gint' = [gint EXCEPT ![p] =
                  @ + SumMeasure(element, Contributing(element), TRUE)]
            /\ gposV' = [gposV EXCEPT ![p] =
                  @ + SumMeasure(element, Positive(element), FALSE)]
            /\ gshell' = [gshell EXCEPT ![p] =
                  @ \/ element.kind = "ThermalShell"]
       ELSE ForgetHistory(p)
  /\ UNCHANGED <<apc, sendbuf, taken, ncoll, nfinals>>

\* finalEvaluation up to the call of MPI_Allreduce: temp[] is handed over.
finalEvaluationEnter(p) ==
  /\ apc[p] = "ready"
  /\ ~sendbuf[p].set
  /\ nfinals[p] < MaxFinals
  /\ IF \E q \in Procs : sendbuf[q].set
       THEN UNCHANGED ncoll
       ELSE ncoll < MaxCollectives /\ ncoll' = ncoll + 1
  /\ sendbuf' = [sendbuf EXCEPT ![p] =
                   [set |-> TRUE, v |-> volume[p], t |-> integral_temp[p]]]
  /\ apc' = [apc EXCEPT ![p] = "allreduce"]
  /\ hist' = [hist EXCEPT ![p] = IF @ = "init" THEN "reducing" ELSE "off"]
  /\ IF hist[p] = "init"
       THEN UNCHANGED <<gvol, gint, gposV, gshell>>
       ELSE ForgetHistory(p)
  /\ UNCHANGED <<volume, integral_temp, taken, nevals, nfinals>>

\* MPI_Allreduce(temp, result, 2, TACS_MPI_TYPE, MPI_SUM, comm): the
\* element-wise sum of what every process of the communicator handed over.
\* The same reduction with MPI_MAX in the place of MPI_SUM.
AllreduceMax(k) ==
  LET f == [q \in Procs |-> IF k = 1 THEN sendbuf[q].v ELSE sendbuf[q].t]
  IN  CHOOSE m \in {f[q] : q \in Procs} : \A q \in Procs : f[q] <= m

AllreduceSum(k) ==
  SumOver([q \in Procs |-> IF k = 1 THEN sendbuf[q].v ELSE sendbuf[q].t], Procs)

\* finalEvaluation from the return of MPI_Allreduce on.
finalEvaluationReturn(p) ==
  /\ apc[p] = "allreduce"
  /\ \A q \in Procs : sendbuf[q].set
  /\ volume' = [volume EXCEPT ![p] = AllreduceSum(1)]
  /\ integral_temp' = [integral_temp EXCEPT ![p] = AllreduceSum(2)]
  /\ apc' = [apc EXCEPT ![p] = "ready"]
  /\ nfinals' = [nfinals EXCEPT ![p] = @ + 1]
  /\ hist' = [hist EXCEPT ![p] = IF @ = "reducing" THEN "final" ELSE "off"]
  /\ IF \A q \in Procs \ {p} : taken[q]
       THEN /\ sendbuf' = [q \in Procs |-> NoBuf]
            /\ taken' = [q \in Procs |-> FALSE]
       ELSE /\ taken' = [taken EXCEPT ![p] = TRUE]
            /\ UNCHANGED sendbuf
  /\ UNCHANGED <<ncoll, nevals, gvol, gint, gposV, gshell>>

AggNext ==
  \/ \E p \in Procs : initEvaluation(p) /\ UNCHANGED <<lifeVars, elemVars, sensVars>>
  \/ \E p \in Procs, element \in Elements :
       elementWiseEval(p, element) /\ UNCHANGED <<lifeVars, elemVars, sensVars>>
  \/ \E p \in Procs : finalEvaluationEnter(p) /\ UNCHANGED <<lifeVars, elemVars, sensVars>>
  \/ \E p \in Procs : finalEvaluationReturn(p) /\ UNCHANGED <<lifeVars, elemVars, sensVars>>

(***************************************************************************)
(* The sensitivities of TACSAverageTemperature                             *)
(*                                                                         *)
(* dfdu and dfdx are modelled by one entry each, and the element adds the  *)
(* seed dfdq of a point to that entry with the factor it is given (alpha,  *)
(* scale).  The values are exact quotients or the IEEE results of a        *)
(* division by zero.                                                       *)
(***************************************************************************)
Finite(n) == Divide(n, 1)
NotANumber == Divide(0, 0)
\* a + b and c * a for such values, c an integer.
ValAdd(a, b) ==
  IF a.kind = NaN \/ b.kind = NaN THEN NotANumber
  ELSE IF a.kind = "finite" /\ b.kind = "finite"
    THEN Divide(a.num * b.den + b.num * a.den, a.den * b.den)
  ELSE IF a.kind = "finite" THEN b
  ELSE IF b.kind = "finite" THEN a
  ELSE IF a.kind = b.kind THEN a ELSE NotANumber
ValScale(c, a) ==
  IF a.kind = NaN THEN NotANumber
  ELSE IF a.kind = "finite" THEN Divide(c * a.num, a.den)
  ELSE IF c = 0 THEN NotANumber
  ELSE IF c > 0 THEN a
  ELSE Divide(IF a.kind = PosInf THEN -1 ELSE 1, 0)

\* element->addPointQuantitySVSens(..., alpha, beta, gamma, ..., &dfdq, dfdu)
\* and element->addPointQuantityDVSens(..., scale, ..., &dfdq, dvLen, dfdx)
\* for TACS_TEMPERATURE.  TACSThermalShellElement overrides neither.
addPointQuantitySVSens(element, alpha, dfdq, dfdu) ==
  IF element.kind = "ThermalShell" THEN dfdu ELSE ValAdd(dfdu, ValScale(alpha, dfdq))
addPointQuantityDVSens(element, scale, dfdq, dfdx) ==
  IF element.kind = "ThermalShell" THEN dfdx ELSE ValAdd(dfdx, ValScale(scale, dfdq))

\* The loops of getElementSVSens and addElementDVSens over the quadrature
\* points i..n of the basis; vol is the member volume.
RECURSIVE SVSensLoop(_, _, _, _, _)
SVSensLoop(element, i, alpha, vol, dfdu) ==
  IF i > Len(element.pts) THEN dfdu
  ELSE IF evalPointQuantity(element, i).count >= 1
    THEN SVSensLoop(element, i + 1, alpha, vol,
           addPointQuantitySVSens(element, alpha,
             Divide(element.pts[i].detJ * element.pts[i].weight, vol), dfdu))
    ELSE SVSensLoop(element, i + 1, alpha, vol, dfdu)
RECURSIVE DVSensLoop(_, _, _, _, _)
DVSensLoop(element, i, scale, vol, dfdx) ==
  IF i > Len(element.pts) THEN dfdx
  ELSE IF evalPointQuantity(element, i).count >= 1
    THEN DVSensLoop(element, i + 1, scale, vol,
           addPointQuantityDVSens(element, scale,
             Divide(element.pts[i].detJ * element.pts[i].weight, vol), dfdx))
    ELSE DVSensLoop(element, i + 1, scale, vol, dfdx)

\* getElementSVSens without its memset.
getElementSVSensKeep(element, alpha, vol, dfdu) ==
  IF getElementBasis(element) THEN SVSensLoop(element, 1, alpha, vol, Finite(dfdu))
  ELSE Finite(dfdu)
\* What dfdu holds after getElementSVSens and dfdx after addElementDVSens,
\* having held dfdu and dfdx at the call.
getElementSVSensResult(element, alpha, vol, dfdu) ==
  IF getElementBasis(element) THEN SVSensLoop(element, 1, alpha, vol, Finite(0))
  ELSE Finite(0)
addElementDVSensResult(element, scale, vol, dfdx) ==
  IF getElementBasis(element) THEN DVSensLoop(element, 1, scale, vol, Finite(dfdx))
  ELSE Finite(dfdx)

\* The elements of the runs with sensitivities: one point of measure 1; a
\* point of measure 2 and a point where nothing is evaluated; no basis.
SensElements ==
  {[kind |-> "Generic", basis |-> TRUE,
    pts |-> <<[weight |-> 1, detJ |-> 1, temp |-> 0, count |-> 1]>>],
   [kind |-> "Generic", basis |-> TRUE,
    pts |-> <<[weight |-> 2, detJ |-> 1, temp |-> 3, count |-> 1],
              [weight |-> 1, detJ |-> 1, temp |-> 0, count |-> 0]>>],
   [kind |-> "Generic", basis |-> FALSE, pts |-> <<>>]}
\* What the caller's dfdu or dfdx holds at the call, and the factors alpha
\* and scale.
BufferValues == {0, 5}
Factors == {1, 2}

NoSens == [kind |-> "none"]
SensInit ==
  /\ sens = NoSens
  /\ cyc = [p \in Procs |-> "new"]
  /\ tvol = [p \in Procs |-> 0]
  /\ tint = [p \in Procs |-> 0]

getElementSVSens(p, element, alpha, dfdu) ==
  /\ apc[p] = "ready"
  /\ sens = NoSens
  /\ sens' = [kind |-> "SV", proc |-> p, element |-> element, factor |-> alpha,
              volume |-> volume[p], held |-> dfdu,
              result |-> getElementSVSensResult(element, alpha, volume[p], dfdu)]
  /\ UNCHANGED <<cyc, tvol, tint>>

addElementDVSens(p, element, scale, dfdx) ==
  /\ apc[p] = "ready"
  /\ sens = NoSens
  /\ sens' = [kind |-> "DV", proc |-> p, element |-> element, factor |-> scale,
              volume |-> volume[p], held |-> dfdx,
              result |-> addElementDVSensResult(element, scale, volume[p], dfdx)]
  /\ UNCHANGED <<cyc, tvol, tint>>

\* The caller takes dfdu or dfdx.
TakeSens ==
  /\ sens # NoSens
  /\ sens' = NoSens
  /\ UNCHANGED <<cyc, tvol, tint>>

\* The record of the calls of process p next to the four calls of the
\* evaluation.
TrackInit(p) ==
  /\ cyc' = [cyc EXCEPT ![p] = "init"]
  /\ tvol' = [tvol EXCEPT ![p] = 0]
  /\ tint' = [tint EXCEPT ![p] = 0]
TrackEval(p, element) ==
  /\ cyc' = [cyc EXCEPT ![p] = IF @ = "init" THEN "init" ELSE "off"]
  /\ tvol' = [tvol EXCEPT ![p] = @ + SumMeasure(element, Contributing(element), FALSE)]
  /\ tint' = [tint EXCEPT ![p] = @ + SumMeasure(element, Contributing(element), TRUE)]
TrackEnter(p) ==
  /\ cyc' = [cyc EXCEPT ![p] = CASE @ = "init" -> "reducing1"
                                  [] @ = "final1" -> "reducing2"
                                  [] OTHER -> "off"]
  /\ UNCHANGED <<tvol, tint>>
TrackReturn(p) ==
  /\ cyc' = [cyc EXCEPT ![p] = CASE @ = "reducing1" -> "final1"
                                  [] @ = "reducing2" -> "final2"
                                  [] OTHER -> "off"]
  /\ UNCHANGED <<tvol, tint>>

\* The evaluation and the sensitivities, called one after the other on every
\* process.
SensNext ==
  \/ \E p \in Procs :
       /\ sens = NoSens /\ initEvaluation(p) /\ TrackInit(p)
       /\ UNCHANGED <<lifeVars, elemVars, sens>>
  \/ \E p \in Procs, element \in SensElements :
       /\ sens = NoSens /\ elementWiseEval(p, element) /\ TrackEval(p, element)
       /\ UNCHANGED <<lifeVars, elemVars, sens>>
  \/ \E p \in Procs :
       /\ sens = NoSens /\ finalEvaluationEnter(p) /\ TrackEnter(p)
       /\ UNCHANGED <<lifeVars, elemVars, sens>>
  \/ \E p \in Procs :
       /\ sens = NoSens /\ finalEvaluationReturn(p) /\ TrackReturn(p)
       /\ UNCHANGED <<lifeVars, elemVars, sens>>
  \/ \E p \in Procs, element \in SensElements, alpha \in Factors, dfdu \in BufferValues :
       getElementSVSens(p, element, alpha, dfdu)
         /\ UNCHANGED <<aggVars, lifeVars, elemVars>>
  \/ \E p \in Procs, element \in SensElements, scale \in Factors, dfdx \in BufferValues :
       addElementDVSens(p, element, scale, dfdx)
         /\ UNCHANGED <<aggVars, lifeVars, elemVars>>
  \/ TakeSens /\ UNCHANGED <<aggVars, lifeVars, elemVars>>

(***************************************************************************)
(* Reference counts of the Transform and Constitutive collaborators        *)
(***************************************************************************)
Transforms == {"transform1", "transform2"}
Constitutives == {"con1", "con2"}
Collaborators == Transforms \cup Constitutives
ElemIds == 1..MaxElems

NoElem == [alive |-> FALSE, transform |-> NoVal, con |-> NoVal]

LifeInit ==
  /\ refcount = [c \in Collaborators |-> 0]
  /\ callerRefs = [c \in Collaborators |-> 0]
  /\ live = [e \in ElemIds |-> NoElem]
  /\ nconstructed = 0

\* TACSObject::incref / decref called by the owner of a collaborator.
CallerIncref(c) ==
  /\ callerRefs[c] < MaxCallerRefs
  /\ refcount' = [refcount EXCEPT ![c] = @ + 1]
  /\ callerRefs' = [callerRefs EXCEPT ![c] = @ + 1]
  /\ UNCHANGED <<live, nconstructed>>

CallerDecref(c) ==
  /\ callerRefs[c] > 0
  /\ refcount' = [refcount EXCEPT ![c] = @ - 1]
  /\ callerRefs' = [callerRefs EXCEPT ![c] = @ - 1]
  /\ UNCHANGED <<live, nconstructed>>

\* TACSThermalShellElement(_transform, _con)
Construct(e, t, c) ==
  /\ ~live[e].alive
  /\ nconstructed < MaxConstructions
  /\ live' = [live EXCEPT ![e] = [alive |-> TRUE, transform |-> t, con |-> c]]
  /\ refcount' = [refcount EXCEPT ![t] = @ + 1, ![c] = @ + 1]
  /\ nconstructed' = nconstructed + 1
  /\ UNCHANGED callerRefs

\* Destruction of an element.  The class declares no destructor: the
\* compiler-generated one leaves the two pointer members, and the objects
\* they point to, alone.
Destroy(e) ==
  /\ live[e].alive
  /\ live' = [live EXCEPT ![e] = NoElem]
  /\ UNCHANGED <<refcount, callerRefs, nconstructed>>

LifeNext ==
  \/ \E c \in Collaborators : CallerIncref(c) /\ UNCHANGED <<aggVars, elemVars, sensVars>>
  \/ \E c \in Collaborators : CallerDecref(c) /\ UNCHANGED <<aggVars, elemVars, sensVars>>
  \/ \E e \in ElemIds, t \in Transforms, c \in Constitutives :
       Construct(e, t, c) /\ UNCHANGED <<aggVars, elemVars, sensVars>>
  \/ \E e \in ElemIds : Destroy(e) /\ UNCHANGED <<aggVars, elemVars, sensVars>>

(***************************************************************************)
(* TACSThermalShellElement<quadrature, basis, director, model>             *)
(*                                                                         *)
(* Arrays are functions on 0..n-1, matrices are flat and row-major as in   *)
(* the code.  The element is instantiated with a 3-node linear triangle    *)
(* basis with a nodal quadrature rule, the linearized-rotation director    *)
(* and the linear strain model; the geometries are flat triangles with     *)
(* unit frame vectors, so that every quantity is an integer (the nodal     *)
(* unknowns are even numbers, for the factors 0.5 of the strain model).    *)
(***************************************************************************)
\* Forces the evaluation of an array once, when it is built.
Arr(f) == f @@ <<>>

\* The array of the values of a sequence.
FromSeq(q) == Arr([k \in 0..(Len(q) - 1) |-> q[k + 1]])
Zeros(n) == Arr([i \in 0..(n - 1) |-> 0])
\* 0.5*x
Half(x) == x \div 2

RECURSIVE DotN(_, _, _)
DotN(a, b, n) == IF n = 0 THEN 0 ELSE a[n - 1] * b[n - 1] + DotN(a, b, n - 1)

RECURSIVE RowCol(_, _, _, _, _, _, _)
RowCol(A, B, i, j, k, c, l) ==
  IF l = 0 THEN 0
  ELSE A[i * k + l - 1] * B[(l - 1) * c + j] + RowCol(A, B, i, j, k, c, l - 1)
\* The product of the r x k matrix A and the k x c matrix B.
MatMul(A, B, r, k, c) ==
  Arr([idx \in 0..(r * c - 1) |-> RowCol(A, B, idx \div c, idx % c, k, c, k)])
\* The transpose of the r x c matrix A.
MatTrans(A, r, c) ==
  Arr([idx \in 0..(r * c - 1) |-> A[(idx % r) * c + (idx \div r)]])
MatAdd(A, B) == Arr([idx \in DOMAIN A |-> A[idx] + B[idx]])
MatScale(a, A) == Arr([idx \in DOMAIN A |-> a * A[idx]])

\* ---- TACSElementAlgebra.h ----
vec3Dot(a, b) == a[0] * b[0] + a[1] * b[1] + a[2] * b[2]
crossProduct(a, b) ==
  Arr([k \in 0..2 |->
        CASE k = 0 -> a[1] * b[2] - a[2] * b[1]
          [] k = 1 -> a[2] * b[0] - a[0] * b[2]
          [] OTHER -> a[0] * b[1] - a[1] * b[0]])
det3x3(A) ==
  A[0] * (A[4] * A[8] - A[5] * A[7]) - A[1] * (A[3] * A[8] - A[5] * A[6])
    + A[2] * (A[3] * A[7] - A[4] * A[6])
\* inv3x3: the adjugate divided by the determinant (the determinant of the
\* geometries of the model is 1).
inv3x3(A) ==
  LET det == det3x3(A)
      adj == <<A[4] * A[8] - A[5] * A[7], A[2] * A[7] - A[1] * A[8],
               A[1] * A[5] - A[2] * A[4], A[5] * A[6] - A[3] * A[8],
               A[0] * A[8] - A[2] * A[6], A[2] * A[3] - A[0] * A[5],
               A[3] * A[7] - A[4] * A[6], A[1] * A[6] - A[0] * A[7],
               A[0] * A[4] - A[1] * A[3]>>
  IN  Arr([k \in 0..8 |-> adj[k + 1] \div det])
mat3x3MatMult(A, B) == MatMul(A, B, 3, 3, 3)
mat3x3TransMatMult(A, B) == MatMul(MatTrans(A, 3, 3), B, 3, 3, 3)
\* The index of entry (i, j) of a symmetric 3 x 3 matrix stored as
\* [0 1 2; 1 3 4; 2 4 5].
SymIdx(i, j) ==
  LET a == IF i <= j THEN i ELSE j
      b == IF i <= j THEN j ELSE i
  IN  CASE a = 0 -> b [] a = 1 -> b + 2 [] OTHER -> 5
\* The rows and columns of the six stored entries.
SymRow(m) == CASE m \in {0, 1, 2} -> 0 [] m \in {3, 4} -> 1 [] OTHER -> 2
SymCol(m) == CASE m = 0 -> 0 [] m \in {1, 3} -> 1 [] OTHER -> 2
\* The 6 x 6 matrix of the derivatives of S = A^T G A (stored entries) with
\* respect to the stored entries of the symmetric G.
SymTransformJac(A) ==
  Arr([idx \in 0..35 |->
        LET i == SymRow(idx \div 6)
            j == SymCol(idx \div 6)
            k == SymRow(idx % 6)
            l == SymCol(idx % 6)
        IN  A[3 * k + i] * A[3 * l + j]
              + (IF k # l THEN A[3 * l + i] * A[3 * k + j] ELSE 0)])
\* mat3x3SymmTransformTranspose(A, G, S): S = A^T G A
mat3x3SymmTransformTranspose(A, G) == MatMul(SymTransformJac(A), G, 6, 6, 1)
\* mat3x3SymmTransformTransSens(A, dS, dG)
mat3x3SymmTransformTransSens(A, dS) ==
  MatMul(MatTrans(SymTransformJac(A), 6, 6), dS, 6, 6, 1)
\* mat3x3SymmTransformTransHessian(A, d2S, d2G)
mat3x3SymmTransformTransHessian(A, d2S) ==
  LET P == SymTransformJac(A)
  IN  MatMul(MatTrans(P, 6, 6), MatMul(d2S, P, 6, 6, 6), 6, 6, 6)

\* ---- sizes ----
offset == 4
NUM_PARAMETERS == 3
NUM_NODES == 3
NUM_TYING_POINTS == 5
NUM_TANGENT_STIFFNESS_ENTRIES == 22
vars_per_node == offset + NUM_PARAMETERS
num_nodes == NUM_NODES
size == vars_per_node * num_nodes
usize == 3 * num_nodes
dsize == 3 * num_nodes
csize == 9 * num_nodes
Nodes == 0..(num_nodes - 1)

\* ---- quadrature: the nodal rule of the triangle ----
getNumQuadraturePoints == 3
\* The parametric point of a node is named by the node; every weight is 1.
getQuadraturePoint(n) == [pt |-> n, weight |-> 1]

\* ---- basis: the 3-node triangle, N0 = 1 - xi - eta, N1 = xi, N2 = eta ----
N(pt, i) == IF pt = i THEN 1 ELSE 0
Nxi(i) == CASE i = 0 -> -1 [] i = 1 -> 1 [] OTHER -> 0
Neta(i) == CASE i = 0 -> -1 [] i = 2 -> 1 [] OTHER -> 0
NGrad(i, dir) == IF dir = 0 THEN Nxi(i) ELSE Neta(i)
getNodePoint(index) == index

RECURSIVE SumNodes(_, _)
SumNodes(F(_), n) == IF n = 0 THEN 0 ELSE F(n - 1) + SumNodes(F, n - 1)

\* basis::interpFields<vpn, m>(pt, &f[base], out)
interpFields(vpn, m, pt, f, base) ==
  Arr([k \in 0..(m - 1) |->
        SumNodes(LAMBDA i : N(pt, i) * f[base + vpn * i + k], num_nodes)])
\* basis::interpFieldsGrad<vpn, m>(pt, &f[base], grad): grad[2k], grad[2k+1]
interpFieldsGrad(vpn, m, pt, f, base) ==
  Arr([g \in 0..(2 * m - 1) |->
        SumNodes(LAMBDA i : NGrad(i, g % 2) * f[base + vpn * i + (g \div 2)],
                 num_nodes)])
\* The node and the component of entry idx of an array of vpn values per
\* node that starts at base; the component is -1 before base.
NodeOf(idx, vpn, base) == (idx - base) \div vpn
CompOf(idx, vpn, base) == IF idx < base THEN -1 ELSE (idx - base) % vpn
\* basis::addInterpFieldsTranspose<vpn, m>(pt, val, &res[base])
addInterpFieldsTranspose(vpn, m, pt, val, res, base) ==
  Arr([idx \in DOMAIN res |->
        LET k == CompOf(idx, vpn, base)
        IN  IF k >= 0 /\ k < m
              THEN res[idx] + N(pt, NodeOf(idx, vpn, base)) * val[k]
              ELSE res[idx]])
\* basis::addInterpFieldsGradTranspose<vpn, m>(pt, grad, &res[base])
addInterpFieldsGradTranspose(vpn, m, pt, grad, res, base) ==
  Arr([idx \in DOMAIN res |->
        LET k == CompOf(idx, vpn, base)
            i == NodeOf(idx, vpn, base)
        IN  IF k >= 0 /\ k < m
              THEN res[idx] + Nxi(i) * grad[2 * k] + Neta(i) * grad[2 * k + 1]
              ELSE res[idx]])
\* basis::addInterpFieldsOuterProduct<vpni, vpnj, mi, mj>(pt, a, &mat[base]):
\* mat has vpnj*num_nodes columns.
addInterpFieldsOuterProduct(vpni, vpnj, mi, mj, pt, a, mat, base) ==
  LET ncols == vpnj * num_nodes
  IN  Arr([idx \in DOMAIN mat |->
        IF idx < base THEN mat[idx]
        ELSE LET row == (idx - base) \div ncols
                 col == (idx - base) % ncols
                 ki == row % vpni
                 kj == col % vpnj
             IN  IF ki < mi /\ kj < mj /\ row \div vpni < num_nodes
                   THEN mat[idx] + N(pt, row \div vpni) * N(pt, col \div vpnj)
                                     * a[mj * ki + kj]
                   ELSE mat[idx]])
\* basis::addInterpGradOuterProduct<vpni, vpnj, 1, 1>(pt, a, &mat[base]) with
\* the 2 x 2 matrix a of the pairs of parametric directions.
addInterpGradOuterProduct(vpni, vpnj, pt, a, mat, base) ==
  LET ncols == vpnj * num_nodes
  IN  Arr([idx \in DOMAIN mat |->
        IF idx < base THEN mat[idx]
        ELSE LET row == (idx - base) \div ncols
                 col == (idx - base) % ncols
                 i == row \div vpni
                 j == col \div vpnj
             IN  IF row % vpni = 0 /\ col % vpnj = 0 /\ i < num_nodes
                   THEN mat[idx]
                          + Nxi(i) * (a[0] * Nxi(j) + a[1] * Neta(j))
                          + Neta(i) * (a[2] * Nxi(j) + a[3] * Neta(j))
                   ELSE mat[idx]])

\* ---- geometry: flat triangles in the plane z = 0 ----
Shears == {0, 1}
\* Node 0 at the origin, node 1 at (1, 0, 0), node 2 at (shear, 1, 0).
XptsOf(shear) == Arr([k \in 0..8 |-> <<0, 0, 0, 1, 0, 0, shear, 1, 0>>[k + 1]])

\* TacsShellAssembleFrame(Xxi, n, Xd): Xd = [X,xi | X,eta | n]
TacsShellAssembleFrame(Xxi, n) ==
  Arr([k \in 0..8 |-> IF k % 3 = 2 THEN n[k \div 3] ELSE Xxi[2 * (k \div 3) + (k % 3)]])
\* The frame gradient [X,xi | X,eta] held in a frame.
FrameGrad(Xd) == Arr([g \in 0..5 |-> Xd[3 * (g \div 2) + (g % 2)]])
\* The two columns of a 3 x 2 gradient.
GradCol(Xxi, dir) == Arr([k \in 0..2 |-> Xxi[2 * k + dir]])
\* The three values of node i of an array.
NodeVec(f, vpn, i, base) == Arr([k \in 0..2 |-> f[base + vpn * i + k]])

\* TacsShellComputeNodeNormals(Xpts, fn, Xdn): the frame vectors of the
\* geometries of the model have a unit cross product.
NodeNormal(Xpts, i) ==
  LET Xxi == interpFieldsGrad(3, 3, getNodePoint(i), Xpts, 0)
  IN  crossProduct(GradCol(Xxi, 0), GradCol(Xxi, 1))
TacsShellComputeNodeNormals(Xpts) ==
  [fn |-> Arr([idx \in 0..(3 * num_nodes - 1) |->
                NodeNormal(Xpts, idx \div 3)[idx % 3]]),
   Xdn |-> Arr([idx \in 0..(9 * num_nodes - 1) |->
                 TacsShellAssembleFrame(
                   interpFieldsGrad(3, 3, getNodePoint(idx \div 9), Xpts, 0),
                   NodeNormal(Xpts, idx \div 9))[idx % 9]])]

\* ---- transform: TACSShellTransform::computeTransform(Xxi, n0, T) ----
Transformations == {"natural", "refaxis"}
RefAxis == Arr([k \in 0..2 |-> <<0, 1, 0>>[k + 1]])
computeTransform(transform, Xxi, n0) ==
  LET t1 == IF transform = "natural" THEN GradCol(Xxi, 0)
            ELSE Arr([k \in 0..2 |-> RefAxis[k] - vec3Dot(RefAxis, n0) * n0[k]])
      t2 == crossProduct(n0, t1)
  IN  Arr([k \in 0..8 |->
            CASE k % 3 = 0 -> t1[k \div 3]
              [] k % 3 = 1 -> t2[k \div 3]
              [] OTHER -> n0[k \div 3]])

\* ---- director: the linearized rotation, d = q x n ----
\* director::computeDirectorRates: the director of every node for the
\* rotation parameters found at offset in v (the state, its first or its
\* second time derivative).
computeDirectorRates(v, fn) ==
  Arr([idx \in 0..(dsize - 1) |->
        crossProduct(NodeVec(v, vars_per_node, idx \div 3, offset),
                     NodeVec(fn, 3, idx \div 3, 0))[idx % 3]])
\* director::computeRotationMat(q, C): C = I - q^x
computeRotationMat(q) ==
  Arr([k \in 0..8 |->
        <<1, q[2], -q[1], -q[2], 1, q[0], q[1], -q[0], 1>>[k + 1]])
\* director::addDirectorResidual: the transpose of d = q x n applied to the
\* sum of dd and dTdot.
addDirectorResidual(fn, dTdot, dd, res) ==
  Arr([idx \in DOMAIN res |->
        LET k == (idx % vars_per_node) - offset
            i == idx \div vars_per_node
        IN  IF k >= 0
              THEN res[idx]
                     + crossProduct(NodeVec(fn, 3, i, 0),
                                    NodeVec(MatAdd(dd, dTdot), 3, i, 0))[k]
              ELSE res[idx]])
\* The dsize x dsize matrix of the derivative of d with respect to the
\* rotation parameters: d(d_a)/d(q_b) = eps_abc n_c at every node.
DirectorJac(fn) ==
  Arr([idx \in 0..(dsize * dsize - 1) |->
        LET r == idx \div dsize
            c == idx % dsize
            a == r % 3
            b == c % 3
            n == NodeVec(fn, 3, r \div 3, 0)
        IN  IF r \div 3 # c \div 3 \/ a = b THEN 0
            ELSE IF b = (a + 1) % 3 THEN n[(a + 2) % 3] ELSE -n[(a + 1) % 3]])

\* ---- strain model: TACSShellLinearModel ----
evalStrain(u0x, u1x, e0ty) ==
  Arr([k \in 0..8 |->
        CASE k = 0 -> e0ty[0]
          [] k = 1 -> e0ty[3]
          [] k = 2 -> 2 * e0ty[1]
          [] k = 3 -> u1x[0]
          [] k = 4 -> u1x[4]
          [] k = 5 -> u1x[1] + u1x[3]
          [] k = 6 -> 2 * e0ty[4]
          [] k = 7 -> 2 * e0ty[2]
          [] OTHER -> 0])
\* The matrices of the derivatives of the strain with respect to u1x
\* (9 x 9) and e0ty (9 x 6).
StrainJacU1x ==
  Arr([idx \in 0..80 |->
        LET k == idx \div 9
            c == idx % 9
        IN  IF (k = 3 /\ c = 0) \/ (k = 4 /\ c = 4) \/ (k = 5 /\ c \in {1, 3})
              THEN 1 ELSE 0])
StrainJacE0ty ==
  Arr([idx \in 0..53 |->
        LET k == idx \div 6
            c == idx % 6
        IN  IF (k = 0 /\ c = 0) \/ (k = 1 /\ c = 3) THEN 1
            ELSE IF (k = 2 /\ c = 1) \/ (k = 6 /\ c = 4) \/ (k = 7 /\ c = 2)
              THEN 2 ELSE 0])
\* model::evalStrainSens(scale, s, u0x, u1x, du0x, du1x, de0ty)
evalStrainSens(scale, s) ==
  [du0x |-> Zeros(9),
   du1x |-> MatScale(scale, MatMul(MatTrans(StrainJacU1x, 9, 9), s, 9, 9, 1)),
   de0ty |-> MatScale(scale, MatMul(MatTrans(StrainJacE0ty, 9, 6), s, 6, 9, 1))]

\* ---- constitutive: TACSShellConstitutive ----
\* A, B, D (symmetric 3 x 3), As (symmetric 2 x 2) and the drill stiffness.
extractTangentStiffness(Cs) ==
  [A |-> Arr([k \in 0..5 |-> Cs[k]]), B |-> Arr([k \in 0..5 |-> Cs[6 + k]]),
   D |-> Arr([k \in 0..5 |-> Cs[12 + k]]), As |-> Arr([k \in 0..2 |-> Cs[18 + k]]),
   drill |-> Cs[21]]
\* The 9 x 9 matrix of the tangent stiffness.
StiffnessMat(Cs) ==
  Arr([idx \in 0..80 |->
        LET i == idx \div 9
            j == idx % 9
        IN  CASE i < 3 /\ j < 3 -> Cs[SymIdx(i, j)]
              [] i < 3 /\ j \in 3..5 -> Cs[6 + SymIdx(i, j - 3)]
              [] i \in 3..5 /\ j < 3 -> Cs[6 + SymIdx(i - 3, j)]
              [] i \in 3..5 /\ j \in 3..5 -> Cs[12 + SymIdx(i - 3, j - 3)]
              [] i \in 6..7 /\ j \in 6..7 -> Cs[18 + (i - 6) + (j - 6)]
              [] i = 8 /\ j = 8 -> Cs[21]
              [] OTHER -> 0])
\* TACSShellConstitutive::computeStress(A, B, D, As, drill, e, s)
computeStress(A, B, D, As, drill, e) ==
  Arr([k \in 0..8 |->
        CASE k < 3 ->
               A[SymIdx(k, 0)] * e[0] + A[SymIdx(k, 1)] * e[1] + A[SymIdx(k, 2)] * e[2]
                 + B[SymIdx(k, 0)] * e[3] + B[SymIdx(k, 1)] * e[4] + B[SymIdx(k, 2)] * e[5]
          [] k \in 3..5 ->
               B[SymIdx(k - 3, 0)] * e[0] + B[SymIdx(k - 3, 1)] * e[1]
                 + B[SymIdx(k - 3, 2)] * e[2] + D[SymIdx(k - 3, 0)] * e[3]
                 + D[SymIdx(k - 3, 1)] * e[4] + D[SymIdx(k - 3, 2)] * e[5]
          [] k = 6 -> As[0] * e[6] + As[1] * e[7]
          [] k = 7 -> As[1] * e[6] + As[2] * e[7]
          [] OTHER -> drill * e[8]])

Quarter(x) == x \div 4
\* The constitutive objects: the tangent stiffness Cs, the thermal expansion
\* ath of the nine strain slots, the conductivity Kt (symmetric 2 x 2), the
\* mass moments, the weights of the failure index and the design field.
evalTangentStiffness(con) == con.Cs
evalStress(con, e) ==
  LET c == extractTangentStiffness(con.Cs)
  IN  computeStress(c.A, c.B, c.D, c.As, c.drill, e)
evalThermalStrain(con, t) == Arr([k \in 0..8 |-> con.ath[k] * t])
evalTangentHeatFlux(con) == con.Kt
evalHeatFlux(con, tx) ==
  Arr([k \in 0..1 |->
        IF k = 0 THEN con.Kt[0] * tx[0] + con.Kt[1] * tx[1]
        ELSE con.Kt[1] * tx[0] + con.Kt[2] * tx[1]])
evalMassMoments(con) == con.moments
evalFailure(con, e) == DotN(con.fail, e, 9)
evalDesignFieldValue(con, index) == con.dv[index]

\* ---- TACSShellUtilities.h ----
\* TacsShellComputeDispGrad(pt, Xpts, vars, fn, d, Xxi, n0, T, XdinvT,
\* XdinvzT, u0x, u1x), which returns det(Xd): with Xd = [Xxi | n0] and
\* Xdz = [n,xi | 0], XdinvT = Xd^-1 T and XdinvzT = -Xd^-1 Xdz XdinvT; with
\* u0d = [u0,xi | d0] and u1d = [d0,xi | 0], u0x = T^T u0d XdinvT and
\* u1x = T^T (u1d XdinvT + u0d XdinvzT).
DispGradOf(T, detXd, XdinvT, XdinvzT, u0d, u1d) ==
  [detXd |-> detXd, XdinvT |-> XdinvT, XdinvzT |-> XdinvzT,
   u0x |-> mat3x3TransMatMult(T, mat3x3MatMult(u0d, XdinvT)),
   u1x |-> mat3x3TransMatMult(T, MatAdd(mat3x3MatMult(u1d, XdinvT),
                                        mat3x3MatMult(u0d, XdinvzT)))]
DispGradIn(T, detXd, XdinvT, negXdinvXdz, u0d, u1d) ==
  DispGradOf(T, detXd, XdinvT, mat3x3MatMult(negXdinvXdz, XdinvT), u0d, u1d)
DispGradAt(T, Xd, Xdinv, Xdz, u0d, u1d) ==
  DispGradIn(T, det3x3(Xd), mat3x3MatMult(Xdinv, T),
             MatScale(-1, mat3x3MatMult(Xdinv, Xdz)), u0d, u1d)
DispGradWith(T, Xd, Xdz, u0d, u1d) == DispGradAt(T, Xd, inv3x3(Xd), Xdz, u0d, u1d)
TacsShellComputeDispGrad(pt, Xpts, vars, fn, d, Xxi, n0, T) ==
  DispGradWith(T, TacsShellAssembleFrame(Xxi, n0),
               TacsShellAssembleFrame(interpFieldsGrad(3, 3, pt, fn, 0), Zeros(3)),
               TacsShellAssembleFrame(interpFieldsGrad(vars_per_node, 3, pt, vars, 0),
                                      interpFields(3, 3, pt, d, 0)),
               TacsShellAssembleFrame(interpFieldsGrad(3, 3, pt, d, 0), Zeros(3)))
\* The 9 x 9 matrix of the map F -> T^T F X of 3 x 3 frames.
FrameMap(T, X) ==
  Arr([idx \in 0..80 |->
        LET r == idx \div 9
            c == idx % 9
        IN  T[3 * (c \div 3) + (r \div 3)] * X[3 * (c % 3) + (r % 3)]])
\* The 9 x 3*num_nodes matrices of the frames [f,xi | f,eta | 0] and
\* [0 | 0 | f] of a nodal field f of three components.
FrameOfGrad ==
  Arr([idx \in 0..(9 * 3 * num_nodes - 1) |->
        LET r == idx \div (3 * num_nodes)
            c == idx % (3 * num_nodes)
        IN  IF r \div 3 = c % 3 /\ r % 3 < 2 THEN NGrad(c \div 3, r % 3) ELSE 0])
FrameOfValue(pt) ==
  Arr([idx \in 0..(9 * 3 * num_nodes - 1) |->
        LET r == idx \div (3 * num_nodes)
            c == idx % (3 * num_nodes)
        IN  IF r \div 3 = c % 3 /\ r % 3 = 2 THEN N(pt, c \div 3) ELSE 0])
\* The derivatives of u0x and u1x with respect to the nodal displacements
\* and the nodal directors.
DispGradJac(pt, T, XdinvT, XdinvzT) ==
  LET L0 == FrameMap(T, XdinvT)
      L2 == FrameMap(T, XdinvzT)
      n == 3 * num_nodes
  IN  [u0u |-> MatMul(L0, FrameOfGrad, 9, 9, n),
       u0d |-> MatMul(L0, FrameOfValue(pt), 9, 9, n),
       u1u |-> MatMul(L2, FrameOfGrad, 9, 9, n),
       u1d |-> MatAdd(MatMul(L0, FrameOfGrad, 9, 9, n),
                      MatMul(L2, FrameOfValue(pt), 9, 9, n))]
\* Adds the values ru of the displacements of the nodes to res.
AddNodal(res, ru) ==
  Arr([idx \in DOMAIN res |->
        IF idx % vars_per_node < 3
          THEN res[idx] + ru[3 * (idx \div vars_per_node) + (idx % vars_per_node)]
          ELSE res[idx]])
\* Adds to mat the 3*num_nodes x 3*num_nodes block H of the three nodal
\* unknowns that start at ro (rows) and at co (columns).
AddBlock(mat, H, ro, co) ==
  Arr([idx \in DOMAIN mat |->
        LET r == (idx \div size) % vars_per_node
            c == (idx % size) % vars_per_node
        IN  IF r >= ro /\ r < ro + 3 /\ c >= co /\ c < co + 3
              THEN mat[idx] + H[(3 * ((idx \div size) \div vars_per_node) + r - ro)
                                  * (3 * num_nodes)
                                  + 3 * ((idx % size) \div vars_per_node) + c - co]
              ELSE mat[idx]])
AddNodalBlock(mat, H) == AddBlock(mat, H, 0, 0)
\* J^T v for the r x c matrix J
TransApply(J, v, r, c) == MatMul(MatTrans(J, r, c), v, c, r, 1)
\* Jp^T H Jr for the a x a matrix H, Jp (a x p) and Jr (a x r)
Congruence(Jp, H, Jr, a, p, r) ==
  IF \A idx \in DOMAIN H : H[idx] = 0 THEN Zeros(p * r)
  ELSE MatMul(MatTrans(Jp, a, p), MatMul(H, Jr, a, a, r), p, a, r)
\* TacsShellAddDispGradSens(pt, T, XdinvT, XdinvzT, du0x, du1x, res, dd):
\* du0d = T du0x XdinvT^T + T du1x XdinvzT^T and du1d = T du1x XdinvT^T are
\* the derivatives with respect to the frames [u0,xi | d0] and [d0,xi | 0].
AddDispGradSensOf(pt, du0d, du1d, res, dd) ==
  [res |-> addInterpFieldsGradTranspose(vars_per_node, 3, pt, FrameGrad(du0d), res, 0),
   dd |-> addInterpFieldsGradTranspose(3, 3, pt, FrameGrad(du1d),
            addInterpFieldsTranspose(3, 3, pt, Arr([k \in 0..2 |-> du0d[3 * k + 2]]),
                                     dd, 0), 0)]
TacsShellAddDispGradSens(pt, T, XdinvT, XdinvzT, du0x, du1x, res, dd) ==
  AddDispGradSensOf(pt,
    MatAdd(mat3x3MatMult(T, mat3x3MatMult(du0x, MatTrans(XdinvT, 3, 3))),
           mat3x3MatMult(T, mat3x3MatMult(du1x, MatTrans(XdinvzT, 3, 3)))),
    mat3x3MatMult(T, mat3x3MatMult(du1x, MatTrans(XdinvT, 3, 3))), res, dd)
\* The second derivatives with respect to the nodal fields p and r of a
\* function of u0x and u1x with the second derivatives d2u0x, d2u1x and
\* d2u0xu1x.
ChainHessian(Jp0, Jp1, Jr0, Jr1, d2u0x, d2u1x, d2u0xu1x, n) ==
  MatAdd(MatAdd(Congruence(Jp0, d2u0x, Jr0, 9, n, n),
                Congruence(Jp0, d2u0xu1x, Jr1, 9, n, n)),
         MatAdd(Congruence(Jp1, MatTrans(d2u0xu1x, 9, 9), Jr0, 9, n, n),
                Congruence(Jp1, d2u1x, Jr1, 9, n, n)))
\* TacsShellAddDispGradHessian(pt, T, XdinvT, XdinvzT, d2u0x, d2u1x,
\* d2u0xu1x, mat, d2d, d2du); d2du has a row per director component.
AddDispGradHessianOf(J, d2u0x, d2u1x, d2u0xu1x, mat, d2d, d2du) ==
  [mat |-> AddNodalBlock(mat, ChainHessian(J.u0u, J.u1u, J.u0u, J.u1u,
                                           d2u0x, d2u1x, d2u0xu1x, usize)),
   d2d |-> MatAdd(d2d, ChainHessian(J.u0d, J.u1d, J.u0d, J.u1d,
                                    d2u0x, d2u1x, d2u0xu1x, dsize)),
   d2du |-> MatAdd(d2du, ChainHessian(J.u0d, J.u1d, J.u0u, J.u1u,
                                      d2u0x, d2u1x, d2u0xu1x, dsize))]
TacsShellAddDispGradHessian(pt, T, XdinvT, XdinvzT, d2u0x, d2u1x, d2u0xu1x, mat, d2d, d2du) ==
  AddDispGradHessianOf(DispGradJac(pt, T, XdinvT, XdinvzT), d2u0x, d2u1x, d2u0xu1x,
                       mat, d2d, d2du)

\* model::evalStrainHessian(scale, s, Cs, u0x, u1x, e0ty, ...): the strain is
\* linear, so the second derivatives are those of the quadratic form of Cs
\* (the drill strain e[8] is not a function of u0x, u1x and e0ty).
evalStrainHessian(scale, s, Cs) ==
  LET C == StiffnessMat(Cs)
  IN  [d2u0x |-> Zeros(81),
       d2u1x |-> MatScale(scale, Congruence(StrainJacU1x, C, StrainJacU1x, 9, 9, 9)),
       d2u0xu1x |-> Zeros(81),
       d2e0ty |-> MatScale(scale, Congruence(StrainJacE0ty, C, StrainJacE0ty, 9, 6, 6)),
       d2e0tyu0x |-> Zeros(54),
       d2e0tyu1x |-> MatScale(scale, Congruence(StrainJacE0ty, C, StrainJacU1x, 9, 6, 9))]

\* ---- tying strain: basis and model ----
\* The parametric point of tying point t: g11, g22 and g12 are sampled at
\* node 0, g23 at node 1 and g13 at node 2.
getTyingPoint(t) == CASE t \in {0, 1, 2} -> 0 [] t = 3 -> 1 [] OTHER -> 2
\* The entry of the symmetric gty that tying point t interpolates.
GtyOf(t) == CASE t = 0 -> 0 [] t = 1 -> 3 [] t = 2 -> 1 [] t = 3 -> 4 [] OTHER -> 2
\* basis::interpTyingStrain(pt, ety, gty)
interpTyingStrain(pt, ety) ==
  Arr([g \in 0..5 |->
        CASE g = 0 -> ety[0] [] g = 3 -> ety[1] [] g = 1 -> ety[2]
          [] g = 4 -> ety[3] [] g = 2 -> ety[4] [] OTHER -> 0])
\* basis::addInterpTyingStrainTranspose(pt, dgty, dety)
addInterpTyingStrainTranspose(pt, dgty, dety) ==
  Arr([t \in 0..(NUM_TYING_POINTS - 1) |-> dety[t] + dgty[GtyOf(t)]])
\* basis::addInterpTyingStrainHessian(pt, d2gty, d2ety)
addInterpTyingStrainHessian(pt, d2gty, d2ety) ==
  Arr([idx \in DOMAIN d2ety |->
        d2ety[idx] + d2gty[6 * GtyOf(idx \div NUM_TYING_POINTS)
                             + GtyOf(idx % NUM_TYING_POINTS)]])
\* The 6 x NUM_TYING_POINTS matrix of interpTyingStrain.
TyingInterpMat ==
  Arr([idx \in 0..(6 * NUM_TYING_POINTS - 1) |->
        IF idx \div NUM_TYING_POINTS = GtyOf(idx % NUM_TYING_POINTS) THEN 1 ELSE 0])
\* model::computeTyingStrain(Xpts, fn, vars, d, ety)
TyingStrainAt(t, Xpts, fn, vars, d) ==
  LET pt == getTyingPoint(t)
      Xxi == interpFieldsGrad(3, 3, pt, Xpts, 0)
      Uxi == interpFieldsGrad(vars_per_node, 3, pt, vars, 0)
      d0 == interpFields(3, 3, pt, d, 0)
      n0 == interpFields(3, 3, pt, fn, 0)
  IN  CASE t = 0 -> vec3Dot(GradCol(Uxi, 0), GradCol(Xxi, 0))
        [] t = 1 -> vec3Dot(GradCol(Uxi, 1), GradCol(Xxi, 1))
        [] t = 2 -> Half(vec3Dot(GradCol(Uxi, 0), GradCol(Xxi, 1))
                           + vec3Dot(GradCol(Uxi, 1), GradCol(Xxi, 0)))
        [] t = 3 -> Half(vec3Dot(GradCol(Xxi, 1), d0) + vec3Dot(n0, GradCol(Uxi, 1)))
        [] OTHER -> Half(vec3Dot(GradCol(Xxi, 0), d0) + vec3Dot(n0, GradCol(Uxi, 0)))
computeTyingStrain(Xpts, fn, vars, d) ==
  Arr([t \in 0..(NUM_TYING_POINTS - 1) |-> TyingStrainAt(t, Xpts, fn, vars, d)])
\* Twice the derivatives of the tying strain with respect to the nodal
\* displacements and the nodal directors (NUM_TYING_POINTS x 3*num_nodes).
TyingJac2U(Xpts, fn) ==
  Arr([idx \in 0..(NUM_TYING_POINTS * usize - 1) |->
        LET t == idx \div usize
            j == (idx % usize) \div 3
            k == idx % 3
            pt == getTyingPoint(t)
            Xxi == interpFieldsGrad(3, 3, pt, Xpts, 0)
            n0 == interpFields(3, 3, pt, fn, 0)
        IN  CASE t = 0 -> 2 * Nxi(j) * Xxi[2 * k]
              [] t = 1 -> 2 * Neta(j) * Xxi[2 * k + 1]
              [] t = 2 -> Nxi(j) * Xxi[2 * k + 1] + Neta(j) * Xxi[2 * k]
              [] t = 3 -> n0[k] * Neta(j)
              [] OTHER -> n0[k] * Nxi(j)])
TyingJac2D(Xpts, fn) ==
  Arr([idx \in 0..(NUM_TYING_POINTS * dsize - 1) |->
        LET t == idx \div dsize
            j == (idx % dsize) \div 3
            k == idx % 3
            pt == getTyingPoint(t)
            Xxi == interpFieldsGrad(3, 3, pt, Xpts, 0)
        IN  CASE t = 3 -> Xxi[2 * k + 1] * N(pt, j)
              [] t = 4 -> Xxi[2 * k] * N(pt, j)
              [] OTHER -> 0])
MatHalf(A) == Arr([idx \in DOMAIN A |-> Half(A[idx])])
MatQuarter(A) == Arr([idx \in DOMAIN A |-> Quarter(A[idx])])
\* model::addComputeTyingStrainTranspose(Xpts, fn, vars, d, dety, res, dd)
addComputeTyingStrainTranspose(Xpts, fn, vars, d, dety, res, dd) ==
  [res |-> AddNodal(res, MatHalf(TransApply(TyingJac2U(Xpts, fn), dety,
                                            NUM_TYING_POINTS, usize))),
   dd |-> MatAdd(dd, MatHalf(TransApply(TyingJac2D(Xpts, fn), dety,
                                        NUM_TYING_POINTS, dsize)))]
\* model::addComputeTyingStrainHessian(alpha, Xpts, fn, vars, d, dety, d2ety,
\* d2etyu, d2etyd, mat, d2d, d2du): the tying strain is linear in the
\* displacements and the directors, so dety and alpha add nothing.
TyingStrainHessianOf(JU, JD, uu, dw, d2ety, d2etyu, d2etyd, mat, d2d, d2du) ==
  [mat |-> AddNodalBlock(mat,
             MatAdd(MatQuarter(Congruence(JU, d2ety, JU, NUM_TYING_POINTS, usize, usize)),
                    MatAdd(uu, MatTrans(uu, usize, usize)))),
   d2d |-> MatAdd(d2d,
             MatAdd(MatQuarter(Congruence(JD, d2ety, JD, NUM_TYING_POINTS, dsize, dsize)),
                    MatAdd(dw, MatTrans(dw, dsize, dsize)))),
   d2du |-> MatAdd(d2du,
             MatAdd(MatQuarter(Congruence(JD, d2ety, JU, NUM_TYING_POINTS, dsize, usize)),
               MatAdd(MatHalf(MatMul(MatTrans(JD, NUM_TYING_POINTS, dsize), d2etyu,
                                     dsize, NUM_TYING_POINTS, usize)),
                      MatTrans(MatHalf(MatMul(MatTrans(JU, NUM_TYING_POINTS, usize),
                                              d2etyd, usize, NUM_TYING_POINTS, dsize)),
                               usize, dsize))))]
TyingStrainHessianIn(JU, JD, d2ety, d2etyu, d2etyd, mat, d2d, d2du) ==
  TyingStrainHessianOf(JU, JD,
    MatHalf(MatMul(MatTrans(JU, NUM_TYING_POINTS, usize), d2etyu,
                   usize, NUM_TYING_POINTS, usize)),
    MatHalf(MatMul(MatTrans(JD, NUM_TYING_POINTS, dsize), d2etyd,
                   dsize, NUM_TYING_POINTS, dsize)),
    d2ety, d2etyu, d2etyd, mat, d2d, d2du)
addComputeTyingStrainHessian(alpha, Xpts, fn, vars, d, dety, d2ety, d2etyu, d2etyd, mat, d2d, d2du) ==
  TyingStrainHessianIn(TyingJac2U(Xpts, fn), TyingJac2D(Xpts, fn), d2ety, d2etyu,
                       d2etyd, mat, d2d, d2du)
\* TacsShellAddTyingDispCoupling(pt, T, XdinvT, XdinvzT, d2e0tyu0x,
\* d2e0tyu1x, d2etyu, d2etyd)
TyingDispCouplingOf(J, PIt, d2e0tyu0x, d2e0tyu1x, d2etyu, d2etyd) ==
  [d2etyu |-> MatAdd(d2etyu,
                MatMul(PIt, MatAdd(MatMul(d2e0tyu0x, J.u0u, 6, 9, usize),
                                   MatMul(d2e0tyu1x, J.u1u, 6, 9, usize)),
                       NUM_TYING_POINTS, 6, usize)),
   d2etyd |-> MatAdd(d2etyd,
                MatMul(PIt, MatAdd(MatMul(d2e0tyu0x, J.u0d, 6, 9, dsize),
                                   MatMul(d2e0tyu1x, J.u1d, 6, 9, dsize)),
                       NUM_TYING_POINTS, 6, dsize))]
TacsShellAddTyingDispCoupling(pt, T, XdinvT, XdinvzT, d2e0tyu0x, d2e0tyu1x, d2etyu, d2etyd) ==
  TyingDispCouplingOf(DispGradJac(pt, T, XdinvT, XdinvzT),
    MatTrans(MatMul(SymTransformJac(XdinvT), TyingInterpMat, 6, 6, NUM_TYING_POINTS),
             6, NUM_TYING_POINTS),
    d2e0tyu0x, d2e0tyu1x, d2etyu, d2etyd)

\* ---- drill strain ----
\* model::evalDrillStrain(u0x, Ct)
evalDrillStrain(u0x, Ct) == Half(Ct[3] + u0x[3] - Ct[1] - u0x[1])
\* The nine values of node i of an array of frames.
NodeFrame(F, i) == Arr([k \in 0..8 |-> F[9 * i + k]])
\* The quantities of TacsShellComputeDrillStrain at node i.
DrillNodeRec(T, XdinvT, u0x, Ct) ==
  [T |-> T, XdinvT |-> XdinvT, u0x |-> u0x, Ct |-> Ct, et |-> evalDrillStrain(u0x, Ct)]
DrillNodeOf(vars, i, T, XdinvT) ==
  DrillNodeRec(T, XdinvT,
    mat3x3TransMatMult(T, mat3x3MatMult(
      TacsShellAssembleFrame(
        interpFieldsGrad(vars_per_node, 3, getNodePoint(i), vars, 0), Zeros(3)),
      XdinvT)),
    mat3x3TransMatMult(T, mat3x3MatMult(
      computeRotationMat(NodeVec(vars, vars_per_node, i, offset)), T)))
DrillNodeIn(vars, i, Xd, T) == DrillNodeOf(vars, i, T, mat3x3MatMult(inv3x3(Xd), T))
DrillNodeAt(transform, fn, vars, i, Xd) ==
  DrillNodeIn(vars, i, Xd, computeTransform(transform, FrameGrad(Xd), NodeVec(fn, 3, i, 0)))
DrillNode(transform, Xdn, fn, vars, i) ==
  DrillNodeAt(transform, fn, vars, i, NodeFrame(Xdn, i))
\* TacsShellComputeDrillStrain(transform, Xdn, fn, vars, XdinvTn, Tn, u0xn,
\* Ctn, etn)
DrillArrays(nd) ==
  [XdinvTn |-> Arr([idx \in 0..(9 * num_nodes - 1) |-> nd[idx \div 9].XdinvT[idx % 9]]),
   Tn |-> Arr([idx \in 0..(9 * num_nodes - 1) |-> nd[idx \div 9].T[idx % 9]]),
   u0xn |-> Arr([idx \in 0..(9 * num_nodes - 1) |-> nd[idx \div 9].u0x[idx % 9]]),
   Ctn |-> Arr([idx \in 0..(csize - 1) |-> nd[idx \div 9].Ct[idx % 9]]),
   etn |-> Arr([i \in Nodes |-> nd[i].et])]
TacsShellComputeDrillStrain(transform, Xdn, fn, vars) ==
  DrillArrays(Arr([i \in Nodes |-> DrillNode(transform, Xdn, fn, vars, i)]))
\* The derivative of the rotation matrix with respect to parameter b.
RotationMatDeriv(b) ==
  LET C == computeRotationMat(Arr([k \in 0..2 |-> IF k = b THEN 1 ELSE 0]))
  IN  Arr([k \in 0..8 |-> C[k] - (IF k \in {0, 4, 8} THEN 1 ELSE 0)])
\* Twice the derivative of the drill strain of the nodes with respect to the
\* unknowns of the element (num_nodes x size).
DrillJac2(XdinvTn, Tn) ==
  LET J == Arr([i \in Nodes |->
                 MatMul(FrameMap(NodeFrame(Tn, i), NodeFrame(XdinvTn, i)),
                        FrameOfGrad, 9, 9, usize)])
      dCt == Arr([i \in Nodes |-> Arr([b \in 0..2 |->
                   mat3x3TransMatMult(NodeFrame(Tn, i),
                     mat3x3MatMult(RotationMatDeriv(b), NodeFrame(Tn, i)))])])
  IN  Arr([idx \in 0..(num_nodes * size - 1) |->
        LET i == idx \div size
            j == (idx % size) \div vars_per_node
            k == (idx % size) % vars_per_node
        IN  IF k < 3 THEN J[i][3 * usize + 3 * j + k] - J[i][usize + 3 * j + k]
            ELSE IF k >= offset /\ i = j
              THEN dCt[i][k - offset][3] - dCt[i][k - offset][1]
            ELSE 0])
\* TacsShellAddDrillStrainSens(Xdn, fn, vars, XdinvTn, Tn, u0xn, Ctn, detn, res)
TacsShellAddDrillStrainSens(XdinvTn, Tn, detn, res) ==
  MatAdd(res, MatHalf(TransApply(DrillJac2(XdinvTn, Tn), detn, num_nodes, size)))
\* TacsShellAddDrillStrainHessian(Xdn, fn, vars, XdinvTn, Tn, u0xn, Ctn, detn,
\* d2etn, res, mat)
DrillStrainHessianOf(J, detn, d2etn, res, mat) ==
  [res |-> MatAdd(res, MatHalf(TransApply(J, detn, num_nodes, size))),
   mat |-> MatAdd(mat, MatQuarter(Congruence(J, d2etn, J, num_nodes, size, size)))]
TacsShellAddDrillStrainHessian(XdinvTn, Tn, detn, d2etn, res, mat) ==
  DrillStrainHessianOf(DrillJac2(XdinvTn, Tn), detn, d2etn, res, mat)

\* director::addDirectorJacobian(alpha, beta, gamma, vars, dvars, ddvars, fn,
\* dTdot, dd, d2Tdotd, d2Tdotu, d2d, d2du, res, mat): d is linear in the
\* rotation parameters and does not depend on the velocities, so beta adds
\* nothing; the inertial second derivatives are scaled by gamma.
addDirectorJacobian(alpha, beta, gamma, fn, dTdot, dd, d2Tdotd, d2Tdotu, d2d, d2du, res, mat) ==
  LET Q == DirectorJac(fn)
      Qt == MatTrans(Q, dsize, dsize)
      qq == Congruence(Q, MatAdd(d2d, MatScale(gamma, d2Tdotd)), Q, dsize, dsize, dsize)
      qu == MatMul(Qt, MatAdd(d2du, MatScale(gamma, d2Tdotu)), dsize, dsize, usize)
  IN  [res |-> addDirectorResidual(fn, dTdot, dd, res),
       mat |-> AddBlock(AddBlock(AddBlock(mat, qq, offset, offset), qu, offset, 0),
                        MatTrans(qu, dsize, usize), 0, offset)]
\* director::addRotationConstraint(vars, res): the linearized rotation has
\* no constraint.
addRotationConstraint(vars, res) == res
\* director::addRotationConstrJacobian(alpha, vars, res, mat)
addRotationConstrJacobian(alpha, vars, res, mat) == [res |-> res, mat |-> mat]

(***************************************************************************)
(* The member functions of the element.  A call c carries the arguments    *)
(* (Xpts, vars, dvars, ddvars, alpha, beta, gamma, etype, write_flag and   *)
(* the initial contents res0, mat0, data0 of the caller's arrays) and the  *)
(* two objects the element holds (transform, con).  The automatic arrays   *)
(* of a call are the fields of its frame f; the caller's arrays are the    *)
(* fields of o.  A frame starts with the arbitrary contents of the stack.  *)
(***************************************************************************)
Vec2(a, b) == Arr([k \in 0..1 |-> IF k = 0 THEN a ELSE b])
Const(n, v) == Arr([i \in 0..(n - 1) |-> v])
\* An accumulator that is left as the stack holds it.
NoMemset(a, n) == a
\* memset(a, 0, n*sizeof(TacsScalar))
memset(a, n) == Zeros(n)
\* A frame whose arrays hold the value junk.
JunkFrame(junk) ==
  [fn |-> Const(3 * num_nodes, junk), Xdn |-> Const(9 * num_nodes, junk),
   XdinvTn |-> Const(9 * num_nodes, junk), Tn |-> Const(9 * num_nodes, junk),
   u0xn |-> Const(9 * num_nodes, junk), Ctn |-> Const(csize, junk),
   etn |-> Const(num_nodes, junk), detn |-> Const(num_nodes, junk),
   d2etn |-> Const(num_nodes * num_nodes, junk),
   d |-> Const(dsize, junk), ddot |-> Const(dsize, junk), dddot |-> Const(dsize, junk),
   dd |-> Const(dsize, junk), dTdot |-> Const(dsize, junk),
   d2d |-> Const(dsize * dsize, junk), d2du |-> Const(usize * dsize, junk),
   d2Tdotd |-> Const(dsize * dsize, junk), d2Tdotu |-> Const(usize * dsize, junk),
   ety |-> Const(NUM_TYING_POINTS, junk), dety |-> Const(NUM_TYING_POINTS, junk),
   d2ety |-> Const(NUM_TYING_POINTS * NUM_TYING_POINTS, junk),
   d2etyu |-> Const(NUM_TYING_POINTS * usize, junk),
   d2etyd |-> Const(NUM_TYING_POINTS * dsize, junk),
   Te |-> junk, Ue |-> junk, dpos |-> junk, log |-> <<>>]

\* The node normals, the drill strain of the nodes, the directors and the
\* tying strain, which every member function computes before its loop.
NodeQuantitiesOf(c, f, three, nn, dr, d) ==
  [f EXCEPT !.fn = nn.fn, !.Xdn = nn.Xdn, !.XdinvTn = dr.XdinvTn, !.Tn = dr.Tn,
            !.u0xn = dr.u0xn, !.Ctn = dr.Ctn, !.etn = dr.etn,
            !.d = d, !.ddot = computeDirectorRates(c.dvars, nn.fn),
            !.dddot = IF three THEN computeDirectorRates(c.ddvars, nn.fn) ELSE @,
            !.ety = computeTyingStrain(c.Xpts, nn.fn, c.vars, d)]
NodeQuantitiesIn(c, f, three, nn) ==
  NodeQuantitiesOf(c, f, three, nn,
                   TacsShellComputeDrillStrain(c.transform, nn.Xdn, nn.fn, c.vars),
                   computeDirectorRates(c.vars, nn.fn))
NodeQuantities(c, f, three) ==
  NodeQuantitiesIn(c, f, three, TacsShellComputeNodeNormals(c.Xpts))

\* e as evalStrain left it
KeepDrill(e, et) == e
\* e[8] = et
SetDrill(e, et) == Arr([i \in 0..8 |-> IF i = 8 THEN et ELSE e[i]])
\* The head of the body of every loop: the frame at the point, the
\* displacement gradient and the strain, with its drill slot overwritten.
\* raw is e as model::evalStrain returns it.
PointStrainSet(c, pt, weight, T, g, et, raw) ==
  [pt |-> pt, X |-> interpFields(3, 3, pt, c.Xpts, 0), T |-> T,
   detXd |-> g.detXd * weight,
   XdinvT |-> g.XdinvT, XdinvzT |-> g.XdinvzT, u0x |-> g.u0x, u1x |-> g.u1x,
   et |-> et, raw |-> raw, e |-> SetDrill(raw, et)]
PointStrainOf(c, f, pt, weight, T, g, et) ==
  PointStrainSet(c, pt, weight, T, g, et,
                 evalStrain(g.u0x, g.u1x,
                   mat3x3SymmTransformTranspose(g.XdinvT, interpTyingStrain(pt, f.ety))))
PointStrainIn(c, f, pt, weight, Xxi, n0, T) ==
  PointStrainOf(c, f, pt, weight, T,
                TacsShellComputeDispGrad(pt, c.Xpts, c.vars, f.fn, f.d, Xxi, n0, T),
                interpFields(1, 1, pt, f.etn, 0)[0])
PointStrainAt(c, f, pt, weight, Xxi, n0) ==
  PointStrainIn(c, f, pt, weight, Xxi, n0, computeTransform(c.transform, Xxi, n0))
PointStrain(c, f, pt, weight) ==
  PointStrainAt(c, f, pt, weight, interpFieldsGrad(3, 3, pt, c.Xpts, 0),
                interpFields(3, 3, pt, f.fn, 0))
\* The subtraction the other way round: em[i] = eth[i] - e[i].
ReversedStrain(e, eth) == Arr([i \in 0..8 |-> eth[i] - e[i]])
\* em[i] = e[i] - eth[i]
MechanicalStrain(e, eth) == Arr([i \in 0..8 |-> e[i] - eth[i]])
\* tx = the first two rows of XdinvT^T applied to txi
TemperatureGradient(XdinvT, txi) ==
  Vec2(XdinvT[0] * txi[0] + XdinvT[1] * txi[1], XdinvT[3] * txi[0] + XdinvT[4] * txi[1])
\* The point without the subtraction of the thermal strain: em = e.
PointThermalNoSubtraction(k, t, tx, q, eth) ==
  [t |-> t, tx |-> tx, q |-> q,
   qxi |-> Vec2(k.detXd * (k.XdinvT[0] * q[0] + k.XdinvT[3] * q[1]),
                k.detXd * (k.XdinvT[1] * q[0] + k.XdinvT[4] * q[1])),
   eth |-> eth, em |-> k.e]
\* The temperature, the heat flux in the parametric frame, the thermal
\* strain and the mechanical strain at the point.
PointThermalOf(k, t, tx, q, eth) ==
  [t |-> t, tx |-> tx, q |-> q,
   qxi |-> Vec2(k.detXd * (k.XdinvT[0] * q[0] + k.XdinvT[3] * q[1]),
                k.detXd * (k.XdinvT[1] * q[0] + k.XdinvT[4] * q[1])),
   eth |-> eth, em |-> MechanicalStrain(k.e, eth)]
PointThermalIn(c, k, t, tx) ==
  PointThermalOf(k, t, tx, evalHeatFlux(c.con, tx), evalThermalStrain(c.con, t))
PointThermal(c, k) ==
  PointThermalIn(c, k, interpFields(vars_per_node, 1, k.pt, c.vars, 3)[0],
                 TemperatureGradient(k.XdinvT,
                                     interpFieldsGrad(vars_per_node, 1, k.pt, c.vars, 3)))
\* The inertial terms of the point: du0dot and dd0dot.
PointInertiaOf(k, moments, u0ddot, d0ddot) ==
  [moments |-> moments,
   du0dot |-> Arr([i \in 0..2 |->
                    k.detXd * (moments[0] * u0ddot[i] + moments[1] * d0ddot[i])]),
   dd0dot |-> Arr([i \in 0..2 |->
                    k.detXd * (moments[1] * u0ddot[i] + moments[2] * d0ddot[i])])]
PointInertia(c, f, k) ==
  PointInertiaOf(k, evalMassMoments(c.con),
                 interpFields(vars_per_node, 3, k.pt, c.ddvars, 0),
                 interpFields(3, 3, k.pt, f.dddot, 0))
\* The locals of a pass of a loop: the strain, the temperature, the heat
\* flux, the thermal stiffness, the thermal and the mechanical strain and
\* the stress.
LogEntry(k, t, q, q2xi, eth, em, s) ==
  [pt |-> k.pt, raw |-> k.raw, e |-> k.e, et |-> k.et, detXd |-> k.detXd, t |-> t,
   q |-> q, q2xi |-> q2xi, eth |-> eth, em |-> em, s |-> s]
\* The caller's arrays zeroed when the call starts.
StartCleared(c, f) ==
  [f |-> f,
   o |-> [res |-> Arr([i \in DOMAIN c.res0 |-> 0]), mat |-> Arr([i \in DOMAIN c.mat0 |-> 0]),
          data |-> c.data0, Te |-> 0, Ue |-> 0]]
\* The caller's arrays when a call with the arguments c starts, next to the
\* frame f of the call.
Start(c, f) ==
  [f |-> f, o |-> [res |-> c.res0, mat |-> c.mat0, data |-> c.data0, Te |-> 0, Ue |-> 0]]

\* ---- computeEnergies ----
\* In what follows r is the pair of the frame r.f and the caller's arrays r.o.
EnergiesBegin(c, f) ==
  [NodeQuantities(c, f, FALSE) EXCEPT !.Te = 0, !.Ue = 0]
EnergiesPointOf(r, k, s, moments, u0dot, d0dot) ==
  [f |-> [r.f EXCEPT !.Ue = @ + Half(k.detXd * DotN(s, k.e, 9)),
                     !.Te = @ + Half(k.detXd * (moments[0] * vec3Dot(u0dot, u0dot)
                                                + 2 * moments[1] * vec3Dot(u0dot, d0dot)
                                                + moments[2] * vec3Dot(d0dot, d0dot))),
                     !.log = Append(@, LogEntry(k, 0, Zeros(2), Zeros(4), Zeros(9), k.e, s))],
   o |-> r.o]
EnergiesPointIn(c, r, k) ==
  EnergiesPointOf(r, k, evalStress(c.con, k.e), evalMassMoments(c.con),
                  interpFields(vars_per_node, 3, k.pt, c.dvars, 0),
                  interpFields(3, 3, k.pt, r.f.ddot, 0))
EnergiesPoint(c, r, quad_index) ==
  EnergiesPointIn(c, r, PointStrain(c, r.f, getQuadraturePoint(quad_index).pt,
                                    getQuadraturePoint(quad_index).weight))
EnergiesEnd(c, r) == [f |-> r.f, o |-> [r.o EXCEPT !.Te = r.f.Te, !.Ue = r.f.Ue]]

\* ---- addResidual ----
ResidualBegin(c, f) ==
  NodeQuantities(c, [f EXCEPT !.dd = memset(@, dsize), !.dTdot = memset(@, dsize),
                              !.dety = memset(@, NUM_TYING_POINTS),
                              !.detn = memset(@, num_nodes)], TRUE)
\* The same with res in the place of &res[3].
addHeatFluxAtStart(pt, qxi, res) ==
  addInterpFieldsGradTranspose(vars_per_node, 1, pt, qxi, res, 0)
\* basis::addInterpFieldsGradTranspose<vars_per_node, 1>(pt, qxi, &res[3])
addHeatFlux(pt, qxi, res) ==
  addInterpFieldsGradTranspose(vars_per_node, 1, pt, qxi, res, 3)
\* basis::addInterpGradOuterProduct<vars_per_node, vars_per_node, 1, 1>(pt, q2xi,
\* &mat[3*(size + 1)])
addConductionTangent(pt, q2xi, mat) ==
  addInterpGradOuterProduct(vars_per_node, vars_per_node, pt, q2xi, mat, 3 * (size + 1))
\* One pass of the loop over the quadrature points.
ResidualPointSet(r, k, th, in, s, ds, g) ==
  [f |-> [r.f EXCEPT
            !.detn = addInterpFieldsTranspose(1, 1, k.pt, Const(1, k.detXd * s[8]), @, 0),
            !.dd = g.dd,
            !.dety = addInterpTyingStrainTranspose(k.pt,
                       mat3x3SymmTransformTransSens(k.XdinvT, ds.de0ty), @),
            !.dTdot = addInterpFieldsTranspose(3, 3, k.pt, in.dd0dot, @, 0),
            !.log = Append(@, LogEntry(k, th.t, th.q, Zeros(4), th.eth, th.em, s))],
   o |-> [r.o EXCEPT
            !.res = addInterpFieldsTranspose(vars_per_node, 3, k.pt, in.du0dot, g.res, 0)]]
ResidualPointAdd(r, k, th, in, s, ds) ==
  ResidualPointSet(r, k, th, in, s, ds,
    TacsShellAddDispGradSens(k.pt, k.T, k.XdinvT, k.XdinvzT, ds.du0x, ds.du1x,
      addHeatFlux(k.pt, th.qxi, r.o.res), r.f.dd))
ResidualPointOf(r, k, th, in, s) ==
  ResidualPointAdd(r, k, th, in, s, evalStrainSens(k.detXd, s))
ResidualPointIn(c, r, k, th) ==
  ResidualPointOf(r, k, th, PointInertia(c, r.f, k), evalStress(c.con, th.em))
ResidualPointAt(c, r, k) == ResidualPointIn(c, r, k, PointThermal(c, k))
ResidualPoint(c, r, quad_index) ==
  ResidualPointAt(c, r, PointStrain(c, r.f, getQuadraturePoint(quad_index).pt,
                                    getQuadraturePoint(quad_index).weight))
ResidualDrill(c, r) ==
  [f |-> r.f,
   o |-> [r.o EXCEPT !.res = TacsShellAddDrillStrainSens(r.f.XdinvTn, r.f.Tn, r.f.detn, @)]]
ResidualTyingOf(r, ty) ==
  [f |-> [r.f EXCEPT !.dd = ty.dd], o |-> [r.o EXCEPT !.res = ty.res]]
ResidualTying(c, r) ==
  ResidualTyingOf(r, addComputeTyingStrainTranspose(c.Xpts, r.f.fn, c.vars, r.f.d,
                                                    r.f.dety, r.o.res, r.f.dd))
ResidualDirector(c, r) ==
  [f |-> r.f,
   o |-> [r.o EXCEPT !.res = addDirectorResidual(r.f.fn, r.f.dTdot, r.f.dd, @)]]
ResidualConstraint(c, r) ==
  [f |-> r.f, o |-> [r.o EXCEPT !.res = addRotationConstraint(c.vars, @)]]

\* The whole of computeEnergies and of addResidual, for a frame that starts
\* with the contents f: what the caller's arrays hold at the return.
RECURSIVE EnergiesLoop(_, _, _)
EnergiesLoop(c, r, quad_index) ==
  IF quad_index = getNumQuadraturePoints THEN r
  ELSE EnergiesLoop(c, EnergiesPoint(c, r, quad_index), quad_index + 1)
computeEnergies(c, f) ==
  EnergiesEnd(c, EnergiesLoop(c, Start(c, EnergiesBegin(c, f)), 0)).o
RECURSIVE ResidualLoop(_, _, _)
ResidualLoop(c, r, quad_index) ==
  IF quad_index = getNumQuadraturePoints THEN r
  ELSE ResidualLoop(c, ResidualPoint(c, r, quad_index), quad_index + 1)
addResidual(c, f) ==
  ResidualConstraint(c, ResidualDirector(c, ResidualTying(c, ResidualDrill(c,
    ResidualLoop(c, Start(c, ResidualBegin(c, f)), 0))))).o

\* ---- addJacobian ----
JacobianBegin(c, f) ==
  NodeQuantities(c, [f EXCEPT !.dd = memset(@, dsize), !.dTdot = memset(@, dsize),
                              !.d2d = memset(@, dsize * dsize),
                              !.d2du = memset(@, usize * dsize),
                              !.d2Tdotd = memset(@, dsize * dsize),
                              !.d2Tdotu = memset(@, usize * dsize),
                              !.dety = memset(@, NUM_TYING_POINTS),
                              !.d2ety = memset(@, NUM_TYING_POINTS * NUM_TYING_POINTS),
                              !.d2etyu = memset(@, NUM_TYING_POINTS * usize),
                              !.d2etyd = memset(@, NUM_TYING_POINTS * dsize),
                              !.detn = memset(@, num_nodes),
                              !.d2etn = memset(@, num_nodes * num_nodes)], TRUE)
\* Ktmp = Kt * XdinvT (2 x 2 blocks)
ThermalStiffnessTmp(Kt, XdinvT) ==
  FromSeq(<<Kt[0] * XdinvT[0] + Kt[1] * XdinvT[3], Kt[0] * XdinvT[1] + Kt[1] * XdinvT[4],
            Kt[1] * XdinvT[0] + Kt[2] * XdinvT[3], Kt[1] * XdinvT[1] + Kt[2] * XdinvT[4]>>)
\* The product without the transposition: alpha * detXd * XdinvT * Ktmp.
ThermalStiffnessNoTranspose(alpha, detXd, XdinvT, Ktmp) ==
  FromSeq(<<alpha * detXd * (XdinvT[0] * Ktmp[0] + XdinvT[1] * Ktmp[2]),
            alpha * detXd * (XdinvT[0] * Ktmp[1] + XdinvT[1] * Ktmp[3]),
            alpha * detXd * (XdinvT[3] * Ktmp[0] + XdinvT[4] * Ktmp[2]),
            alpha * detXd * (XdinvT[3] * Ktmp[1] + XdinvT[4] * Ktmp[3])>>)
\* q2xi = alpha * detXd * XdinvT^T * Ktmp
ThermalStiffness(alpha, detXd, XdinvT, Ktmp) ==
  FromSeq(<<alpha * detXd * (XdinvT[0] * Ktmp[0] + XdinvT[3] * Ktmp[2]),
            alpha * detXd * (XdinvT[0] * Ktmp[1] + XdinvT[3] * Ktmp[3]),
            alpha * detXd * (XdinvT[1] * Ktmp[0] + XdinvT[4] * Ktmp[2]),
            alpha * detXd * (XdinvT[1] * Ktmp[1] + XdinvT[4] * Ktmp[3])>>)
\* A 3 x 3 multiple of the identity.
Diag3(v) == Arr([k \in 0..8 |-> IF k \in {0, 4, 8} THEN v ELSE 0])
\* The same block without the factor gamma.
MassTangentUnscaled(gamma, detXd, moments) == Diag3(detXd * moments[0])
\* d2u0dot[0] = d2u0dot[4] = d2u0dot[8] = gamma*detXd*moments[0]
MassTangent(gamma, detXd, moments) == Diag3(gamma * detXd * moments[0])
\* The stress of the strain e for the tangent stiffness cs, taken apart.
StressOf(cs, e) == computeStress(cs.A, cs.B, cs.D, cs.As, cs.drill, e)
\* One pass of the loop over the quadrature points.
JacobianPointSet(c, r, k, th, in, Cs, s, ds, hs, q2xi, g, h, cp) ==
  [f |-> [r.f EXCEPT
            !.detn = addInterpFieldsTranspose(1, 1, k.pt, Const(1, k.detXd * s[8]), @, 0),
            !.dd = g.dd,
            !.d2etn = addInterpFieldsOuterProduct(1, 1, 1, 1, k.pt,
                        Const(1, k.detXd * c.alpha * Cs[21]), @, 0),
            !.d2d = h.d2d, !.d2du = h.d2du,
            !.d2etyu = cp.d2etyu, !.d2etyd = cp.d2etyd,
            !.dety = addInterpTyingStrainTranspose(k.pt,
                       mat3x3SymmTransformTransSens(k.XdinvT, ds.de0ty), @),
            !.d2ety = addInterpTyingStrainHessian(k.pt,
                        mat3x3SymmTransformTransHessian(k.XdinvT, hs.d2e0ty), @),
            !.dTdot = addInterpFieldsTranspose(3, 3, k.pt, in.dd0dot, @, 0),
            !.d2Tdotd = addInterpFieldsOuterProduct(3, 3, 3, 3, k.pt,
                          Diag3(k.detXd * in.moments[2]), @, 0),
            !.d2Tdotu = addInterpFieldsOuterProduct(3, 3, 3, 3, k.pt,
                          Diag3(k.detXd * in.moments[1]), @, 0),
            !.log = Append(@, LogEntry(k, th.t, th.q, q2xi, th.eth, th.em, s))],
   o |-> [r.o EXCEPT
            !.res = addInterpFieldsTranspose(vars_per_node, 3, k.pt, in.du0dot, g.res, 0),
            !.mat = addInterpFieldsOuterProduct(vars_per_node, vars_per_node, 3, 3, k.pt,
                      MassTangent(c.gamma, k.detXd, in.moments), h.mat, 0)]]
JacobianPointAdd(c, r, k, th, in, Cs, s, ds, hs, q2xi) ==
  JacobianPointSet(c, r, k, th, in, Cs, s, ds, hs, q2xi,
    TacsShellAddDispGradSens(k.pt, k.T, k.XdinvT, k.XdinvzT, ds.du0x, ds.du1x,
      addHeatFlux(k.pt, th.qxi, r.o.res), r.f.dd),
    TacsShellAddDispGradHessian(k.pt, k.T, k.XdinvT, k.XdinvzT, hs.d2u0x, hs.d2u1x,
      hs.d2u0xu1x,
      addConductionTangent(k.pt, q2xi, r.o.mat),
      r.f.d2d, r.f.d2du),
    TacsShellAddTyingDispCoupling(k.pt, k.T, k.XdinvT, k.XdinvzT, hs.d2e0tyu0x,
                                  hs.d2e0tyu1x, r.f.d2etyu, r.f.d2etyd))
JacobianPointOf(c, r, k, th, in, Cs, s) ==
  JacobianPointAdd(c, r, k, th, in, Cs, s, evalStrainSens(k.detXd, s),
                   evalStrainHessian(c.alpha * k.detXd, s, Cs),
                   ThermalStiffness(c.alpha, k.detXd, k.XdinvT,
                     ThermalStiffnessTmp(evalTangentHeatFlux(c.con), k.XdinvT)))
JacobianPointIn(c, r, k, th) ==
  JacobianPointOf(c, r, k, th, PointInertia(c, r.f, k), evalTangentStiffness(c.con),
                  StressOf(extractTangentStiffness(evalTangentStiffness(c.con)), th.em))
JacobianPointAt(c, r, k) == JacobianPointIn(c, r, k, PointThermal(c, k))
JacobianPoint(c, r, quad_index) ==
  JacobianPointAt(c, r, PointStrain(c, r.f, getQuadraturePoint(quad_index).pt,
                                    getQuadraturePoint(quad_index).weight))
JacobianDrillOf(r, dr) ==
  [f |-> r.f, o |-> [r.o EXCEPT !.res = dr.res, !.mat = dr.mat]]
JacobianDrill(c, r) ==
  JacobianDrillOf(r, TacsShellAddDrillStrainHessian(r.f.XdinvTn, r.f.Tn, r.f.detn,
                                                    r.f.d2etn, r.o.res, r.o.mat))
\* addJacobian without its call of addComputeTyingStrainTranspose.
JacobianTyingSkipped(c, r) == r
JacobianTying(c, r) ==
  ResidualTyingOf(r, addComputeTyingStrainTranspose(c.Xpts, r.f.fn, c.vars, r.f.d,
                                                    r.f.dety, r.o.res, r.f.dd))
JacobianTyingHessianOf(r, th) ==
  [f |-> [r.f EXCEPT !.d2d = th.d2d, !.d2du = th.d2du],
   o |-> [r.o EXCEPT !.mat = th.mat]]
JacobianTyingHessian(c, r) ==
  JacobianTyingHessianOf(r,
    addComputeTyingStrainHessian(c.alpha, c.Xpts, r.f.fn, c.vars, r.f.d, r.f.dety,
                                 r.f.d2ety, r.f.d2etyu, r.f.d2etyd, r.o.mat,
                                 r.f.d2d, r.f.d2du))
JacobianDirector(c, r) ==
  JacobianDrillOf(r, addDirectorJacobian(c.alpha, c.beta, c.gamma, r.f.fn, r.f.dTdot,
                                         r.f.dd, r.f.d2Tdotd, r.f.d2Tdotu, r.f.d2d,
                                         r.f.d2du, r.o.res, r.o.mat))
JacobianConstraint(c, r) ==
  JacobianDrillOf(r, addRotationConstrJacobian(c.alpha, c.vars, r.o.res, r.o.mat))
RECURSIVE JacobianLoop(_, _, _)
JacobianLoop(c, r, quad_index) ==
  IF quad_index = getNumQuadraturePoints THEN r
  ELSE JacobianLoop(c, JacobianPoint(c, r, quad_index), quad_index + 1)
\* The whole of addJacobian: what the caller's arrays hold at the return.
addJacobian(c, f) ==
  JacobianConstraint(c, JacobianDirector(c, JacobianTyingHessian(c, JacobianTying(c,
    JacobianDrill(c, JacobianLoop(c, Start(c, JacobianBegin(c, f)), 0)))))).o

\* ---- getOutputData ----
\* TacsGetNumVisNodes(basis::getLayoutType())
num_vis_nodes == 3
OutputFlags ==
  {"TACS_OUTPUT_NODES", "TACS_OUTPUT_DISPLACEMENTS", "TACS_OUTPUT_STRAINS",
   "TACS_OUTPUT_STRESSES", "TACS_OUTPUT_EXTRAS"}
ElementTypes == {"TACS_BEAM_OR_SHELL_ELEMENT", "TACS_SOLID_ELEMENT"}
\* data[i] = vals[i] for i < n, where data points at entry pos of the array.
WriteAt(data, pos, vals, n) ==
  Arr([idx \in DOMAIN data |->
        IF idx >= pos /\ idx < pos + n THEN vals[idx - pos] ELSE data[idx]])
\* if (etype == TACS_BEAM_OR_SHELL_ELEMENT){ if (write_flag & flag){ ... } }
Written(c, flag) == c.etype = "TACS_BEAM_OR_SHELL_ELEMENT" /\ flag \in c.write_flag
WriteIf(c, flag, data, pos, vals, n) ==
  IF Written(c, flag) THEN WriteAt(data, pos, vals, n) ELSE data
\* data += n, outside of the tests
SkipAlways(c, flag, pos, n) == pos + n
\* data += n, inside the same tests
Skip(c, flag, pos, n) == IF Written(c, flag) THEN pos + n ELSE pos
\* The frame of getOutputData before its loop; data is the pointer argument.
OutputBegin(c, f) == [NodeQuantities(c, f, FALSE) EXCEPT !.dpos = 0]
\* The six displacement values of a node: the first len unknowns, then zeros.
OutputDisplacements(vars, index) ==
  LET len == IF vars_per_node > 6 THEN 6 ELSE vars_per_node
  IN  Arr([i \in 0..5 |-> IF i < len THEN vars[i + vars_per_node * index] ELSE 0])
OutputExtras(c, e) ==
  FromSeq(<<evalFailure(c.con, e), evalDesignFieldValue(c.con, 0),
            evalDesignFieldValue(c.con, 1), evalDesignFieldValue(c.con, 2)>>)
\* One pass of the loop over the visualization nodes; p1..p4 are the
\* positions of data after the first four blocks.
OutputNodeSet(c, r, index, k, t, eth, em, s, p1, p2, p3, p4) ==
  [f |-> [r.f EXCEPT !.dpos = Skip(c, "TACS_OUTPUT_EXTRAS", p4, 4),
                     !.log = Append(@, LogEntry(k, t, Zeros(2), Zeros(4), eth, em, s))],
   o |-> [r.o EXCEPT !.data =
            WriteIf(c, "TACS_OUTPUT_EXTRAS",
              WriteIf(c, "TACS_OUTPUT_STRESSES",
                WriteIf(c, "TACS_OUTPUT_STRAINS",
                  WriteIf(c, "TACS_OUTPUT_DISPLACEMENTS",
                    WriteIf(c, "TACS_OUTPUT_NODES", @, r.f.dpos, k.X, 3),
                    p1, OutputDisplacements(c.vars, index), 6),
                  p2, k.e, 9),
                p3, s, 9),
              p4, OutputExtras(c, k.e), 4)]]
OutputNodeTo(c, r, index, k, t, eth, em, s, p1, p2, p3) ==
  OutputNodeSet(c, r, index, k, t, eth, em, s, p1, p2, p3,
                Skip(c, "TACS_OUTPUT_STRESSES", p3, 9))
OutputNodeFrom(c, r, index, k, t, eth, em, s, p1) ==
  OutputNodeTo(c, r, index, k, t, eth, em, s, p1,
               Skip(c, "TACS_OUTPUT_DISPLACEMENTS", p1, 6),
               Skip(c, "TACS_OUTPUT_STRAINS", Skip(c, "TACS_OUTPUT_DISPLACEMENTS", p1, 6), 9))
OutputNodeOf(c, r, index, k, t, eth, em) ==
  OutputNodeFrom(c, r, index, k, t, eth, em, evalStress(c.con, em),
                 Skip(c, "TACS_OUTPUT_NODES", r.f.dpos, 3))
\* The pass with the stress of the total strain.
OutputNodeInTotal(c, r, index, k, t, eth) ==
  OutputNodeOf(c, r, index, k, t, eth, k.e)
OutputNodeIn(c, r, index, k, t, eth) ==
  OutputNodeOf(c, r, index, k, t, eth, MechanicalStrain(k.e, eth))
OutputNodeAt(c, r, index, k, t) ==
  OutputNodeIn(c, r, index, k, t, evalThermalStrain(c.con, t))
OutputNode(c, r, index) ==
  OutputNodeAt(c, r, index, PointStrain(c, r.f, getNodePoint(index), 1),
               interpFields(vars_per_node, 1, getNodePoint(index), c.vars, 3)[0])
RECURSIVE OutputLoop(_, _, _)
OutputLoop(c, r, index) ==
  IF index = num_vis_nodes THEN r
  ELSE OutputLoop(c, OutputNode(c, r, index), index + 1)
\* The whole of getOutputData: what the caller's arrays hold at the return.
getOutputData(c, f) == OutputLoop(c, Start(c, OutputBegin(c, f)), 0).o

\* ---- the objects and the arguments of the calls ----
Stiffness ==
  FromSeq(<<8, 2, 2, 8, 2, 4,  2, 0, 0, 2, 0, 2,  4, 2, 0, 4, 0, 2,  4, 2, 4,  4>>)
ThermalExpansions ==
  {Zeros(9), FromSeq(<<1, 1, 0, 0, 0, 0, 0, 0, 0>>),
   FromSeq(<<1, 2, 1, 1, 0, 1, 1, 0, 1>>)}
Conductivities == {Zeros(3), FromSeq(<<2, 1, 3>>)}
Constitutive(ath, Kt) ==
  [Cs |-> Stiffness, ath |-> ath, Kt |-> Kt, moments |-> FromSeq(<<3, 1, 2>>),
   fail |-> FromSeq(<<1, 0, 0, 1, 0, 0, 0, 0, 1>>), dv |-> FromSeq(<<5, 6, 7>>)]
\* The unit vector of unknown j scaled by v, and its sum with an array.
Unit(j, v) == Arr([i \in 0..(size - 1) |-> IF i = j THEN v ELSE 0])
Perturb(a, j, v) == Arr([i \in DOMAIN a |-> IF i = j THEN a[i] + v ELSE a[i]])

Zs == Zeros(size)
\* The state vectors: a rigid translation (2, -2, 4) of every node with the
\* nodal temperatures t, and two states with every unknown in play.
Translation(t) ==
  Arr([i \in 0..(size - 1) |->
        CASE i % vars_per_node = 0 -> 2
          [] i % vars_per_node = 1 -> -2
          [] i % vars_per_node = 2 -> 4
          [] i % vars_per_node = 3 -> t[i \div vars_per_node + 1]
          [] OTHER -> 0])
Dense ==
  FromSeq(<<2, 4, -2, 2, 0, 2, 4,  0, 2, 2, 4, 2, -2, 0,  4, 0, 2, -2, 2, 2, -4>>)
Dense2 ==
  FromSeq(<<0, 2, -2, 0, 2, 2, 0,  2, 2, 0, 4, 2, 0, 0,  -2, 0, 2, 0, 2, 0, 2>>)
Dense3 ==
  FromSeq(<<2, 0, 2, 2, -2, 0, 2,  0, -2, 2, 0, 0, 2, 2,  2, 2, 0, 2, 0, -2, 0>>)
Translations == {Translation(<<0, 0, 0>>), Translation(<<2, 2, 2>>),
                 Translation(<<2, 0, 4>>)}
StateVectors == {Zs, Dense} \cup Translations
Geometries == {[shear |-> 0, transform |-> "natural"],
               [shear |-> 1, transform |-> "refaxis"]}
Constitutives9 == {Constitutive(a, K) : a \in ThermalExpansions, K \in Conductivities}
Static == [dvars |-> Zs, ddvars |-> Zs, alpha |-> 1, beta |-> 0, gamma |-> 0, fill |-> 0]
Dynamic == [dvars |-> Dense2, ddvars |-> Dense3, alpha |-> 2, beta |-> 1, gamma |-> 3,
            fill |-> 5]
\* A call with every coefficient of the Jacobian zero.
Frozen == [dvars |-> Dense2, ddvars |-> Dense3, alpha |-> 0, beta |-> 0, gamma |-> 0,
           fill |-> 5]
\* The length of the caller's array of getOutputData.
DataLen == num_vis_nodes * (3 + 6 + 9 + 9 + 4)
MkCall(op, g, con, vars, m, etype, write_flag) ==
  [op |-> op, Xpts |-> XptsOf(g.shear), transform |-> g.transform, con |-> con,
   vars |-> vars, dvars |-> m.dvars, ddvars |-> m.ddvars,
   alpha |-> m.alpha, beta |-> m.beta, gamma |-> m.gamma,
   etype |-> etype, write_flag |-> write_flag, ld_data |-> 0,
   res0 |-> IF op \in {"addResidual", "addJacobian"} THEN Const(size, m.fill) ELSE <<>>,
   mat0 |-> IF op = "addJacobian" THEN Const(size * size, m.fill) ELSE <<>>,
   data0 |-> IF op = "getOutputData" THEN Const(DataLen, 9) ELSE <<>>]
EnergiesCalls ==
  {MkCall("computeEnergies", g, Constitutive(Zeros(9), Zeros(3)), v, m, "", {}) :
     g \in Geometries, v \in StateVectors, m \in {Static, Dynamic}}
ResidualCalls ==
  {MkCall("addResidual", g, con, v, m, "", {}) :
     g \in Geometries, con \in Constitutives9, v \in StateVectors, m \in {Static, Dynamic}}
JacobianCalls ==
  {MkCall("addJacobian", g, con, v, m, "", {}) :
     g \in Geometries, v \in {Translation(<<2, 0, 4>>), Dense}, m \in {Static, Dynamic},
     con \in {cc \in Constitutives9 : cc.Kt # Zeros(3) \/ cc.ath = Zeros(9)}}
  \cup {MkCall("addJacobian", g, Constitutive(FromSeq(<<1, 2, 1, 1, 0, 1, 1, 0, 1>>),
                                              FromSeq(<<2, 1, 3>>)),
                Dense, Frozen, "", {}) : g \in Geometries}
\* The element type, the flags and the leading dimension ld_data the caller
\* of getOutputData passes: the row length of its array, which is the record
\* width of the flags or more.
OutputModes ==
  {[etype |-> "TACS_BEAM_OR_SHELL_ELEMENT", write_flag |-> OutputFlags, ld_data |-> 31],
   [etype |-> "TACS_BEAM_OR_SHELL_ELEMENT",
    write_flag |-> {"TACS_OUTPUT_STRAINS", "TACS_OUTPUT_STRESSES"}, ld_data |-> 18],
   [etype |-> "TACS_BEAM_OR_SHELL_ELEMENT",
    write_flag |-> {"TACS_OUTPUT_STRAINS", "TACS_OUTPUT_STRESSES"}, ld_data |-> 31],
   [etype |-> "TACS_BEAM_OR_SHELL_ELEMENT", write_flag |-> {}, ld_data |-> 31],
   [etype |-> "TACS_SOLID_ELEMENT", write_flag |-> OutputFlags, ld_data |-> 31]}
OutputCalls ==
  {[MkCall("getOutputData", g, Constitutive(a, Zeros(3)), v, Static, w.etype,
           w.write_flag) EXCEPT !.ld_data = w.ld_data] :
     g \in Geometries, a \in ThermalExpansions, v \in {Translation(<<2, 0, 4>>), Dense},
     w \in OutputModes}
ElemCalls == EnergiesCalls \cup ResidualCalls \cup JacobianCalls \cup OutputCalls
\* What the stack holds when a call starts.
StackValues == {0, 7}

Threads == 1..NumThreads
NoCall == [op |-> "none"]
NoOut == [res |-> <<>>, mat |-> <<>>, data |-> <<>>, Te |-> 0, Ue |-> 0]
\* The frame of a thread that runs no member function.
NoFrame == [log |-> <<>>]
ElemInit ==
  /\ ecall = [k \in Threads |-> NoCall]
  /\ epc = [k \in Threads |-> "idle"]
  /\ equad = [k \in Threads |-> 0]
  /\ scratch = [k \in Threads |-> NoFrame]
  /\ out = [k \in Threads |-> NoOut]
\* Thread k enters a member function with the arguments c; r holds the frame
\* when the loop starts and the caller's arrays.
Enter(k, c, r) ==
  /\ epc[k] = "idle"
  /\ ecall' = [ecall EXCEPT ![k] = c]
  /\ epc' = [epc EXCEPT ![k] = "loop"]
  /\ equad' = [equad EXCEPT ![k] = 0]
  /\ scratch' = [scratch EXCEPT ![k] = r.f]
  /\ out' = [out EXCEPT ![k] = r.o]
\* Thread k goes on to phase pc with the loop counter q, the frame r.f and
\* the caller's arrays r.o.
Advance(k, pc, q, r) ==
  /\ epc' = [epc EXCEPT ![k] = pc]
  /\ equad' = [equad EXCEPT ![k] = q]
  /\ scratch' = [scratch EXCEPT ![k] = r.f]
  /\ out' = [out EXCEPT ![k] = r.o]
  /\ UNCHANGED ecall
\* Thread k returns: its frame is gone, the caller's arrays hold r.o.  The
\* record of the locals of the passes is kept until the caller has taken the
\* results.
Return(k, r) ==
  /\ epc' = [epc EXCEPT ![k] = "done"]
  /\ scratch' = [scratch EXCEPT ![k] = [log |-> r.f.log]]
  /\ out' = [out EXCEPT ![k] = r.o]
  /\ UNCHANGED <<ecall, equad>>
At(k, op, pc) == ecall[k].op = op /\ epc[k] = pc
\* The frame and the caller's arrays of thread k.
Now(k) == [f |-> scratch[k], o |-> out[k]]
\* The phase after a pass of a loop of n passes.
AfterPass(k, n, next) == IF equad[k] + 1 < n THEN "loop" ELSE next

\* ---- the steps of computeEnergies ----
computeEnergiesEnter(k, c, junk) ==
  /\ c.op = "computeEnergies"
  /\ Enter(k, c, Start(c, EnergiesBegin(c, JunkFrame(junk))))
computeEnergiesPoint(k) ==
  /\ At(k, "computeEnergies", "loop")
  /\ Advance(k, AfterPass(k, getNumQuadraturePoints, "finish"), equad[k] + 1,
             EnergiesPoint(ecall[k], Now(k), equad[k]))
computeEnergiesReturn(k) ==
  /\ At(k, "computeEnergies", "finish")
  /\ Return(k, EnergiesEnd(ecall[k], Now(k)))

\* ---- the steps of addResidual ----
addResidualEnter(k, c, junk) ==
  /\ c.op = "addResidual"
  /\ Enter(k, c, Start(c, ResidualBegin(c, JunkFrame(junk))))
addResidualPoint(k) ==
  /\ At(k, "addResidual", "loop")
  /\ Advance(k, AfterPass(k, getNumQuadraturePoints, "drill"), equad[k] + 1,
             ResidualPoint(ecall[k], Now(k), equad[k]))
addResidualDrill(k) ==
  /\ At(k, "addResidual", "drill")
  /\ Advance(k, "tying", equad[k], ResidualDrill(ecall[k], Now(k)))
addResidualTying(k) ==
  /\ At(k, "addResidual", "tying")
  /\ Advance(k, "director", equad[k], ResidualTying(ecall[k], Now(k)))
addResidualDirector(k) ==
  /\ At(k, "addResidual", "director")
  /\ Advance(k, "constraint", equad[k], ResidualDirector(ecall[k], Now(k)))
addResidualConstraint(k) ==
  /\ At(k, "addResidual", "constraint")
  /\ Return(k, ResidualConstraint(ecall[k], Now(k)))

\* ---- the steps of addJacobian ----
addJacobianEnter(k, c, junk) ==
  /\ c.op = "addJacobian"
  /\ Enter(k, c, Start(c, JacobianBegin(c, JunkFrame(junk))))
addJacobianPoint(k) ==
  /\ At(k, "addJacobian", "loop")
  /\ Advance(k, AfterPass(k, getNumQuadraturePoints, "drill"), equad[k] + 1,
             JacobianPoint(ecall[k], Now(k), equad[k]))
addJacobianDrill(k) ==
  /\ At(k, "addJacobian", "drill")
  /\ Advance(k, "tying", equad[k], JacobianDrill(ecall[k], Now(k)))
addJacobianTying(k) ==
  /\ At(k, "addJacobian", "tying")
  /\ Advance(k, "tyingHessian", equad[k], JacobianTying(ecall[k], Now(k)))
addJacobianTyingHessian(k) ==
  /\ At(k, "addJacobian", "tyingHessian")
  /\ Advance(k, "director", equad[k], JacobianTyingHessian(ecall[k], Now(k)))
\* The chain rule of the directors taken before the tying strain has been
\* pushed back.
addJacobianDirectorEarly(k) ==
  /\ At(k, "addJacobian", "tying")
  /\ Advance(k, "constraint", equad[k], JacobianDirector(ecall[k], Now(k)))
addJacobianDirector(k) ==
  /\ At(k, "addJacobian", "director")
  /\ Advance(k, "constraint", equad[k], JacobianDirector(ecall[k], Now(k)))
addJacobianConstraint(k) ==
  /\ At(k, "addJacobian", "constraint")
  /\ Return(k, JacobianConstraint(ecall[k], Now(k)))

\* ---- the steps of getOutputData ----
getOutputDataEnter(k, c, junk) ==
  /\ c.op = "getOutputData"
  /\ Enter(k, c, Start(c, OutputBegin(c, JunkFrame(junk))))
getOutputDataNode(k) ==
  /\ At(k, "getOutputData", "loop")
  /\ Advance(k, AfterPass(k, num_vis_nodes, "finish"), equad[k] + 1,
             OutputNode(ecall[k], Now(k), equad[k]))
getOutputDataReturn(k) ==
  /\ At(k, "getOutputData", "finish")
  /\ Return(k, Now(k))

\* The caller of thread k takes the results.
Release(k) ==
  /\ epc[k] = "done"
  /\ ecall' = [ecall EXCEPT ![k] = NoCall]
  /\ epc' = [epc EXCEPT ![k] = "idle"]
  /\ scratch' = [scratch EXCEPT ![k] = NoFrame]
  /\ out' = [out EXCEPT ![k] = NoOut]
  /\ UNCHANGED equad

\* One thread calls the member functions one after the other.
ElemNext ==
  \/ \E c \in ElemCalls, junk \in StackValues :
       computeEnergiesEnter(1, c, junk) /\ UNCHANGED <<aggVars, lifeVars, sensVars>>
  \/ computeEnergiesPoint(1) /\ UNCHANGED <<aggVars, lifeVars, sensVars>>
  \/ computeEnergiesReturn(1) /\ UNCHANGED <<aggVars, lifeVars, sensVars>>
  \/ \E c \in ElemCalls, junk \in StackValues :
       addResidualEnter(1, c, junk) /\ UNCHANGED <<aggVars, lifeVars, sensVars>>
  \/ addResidualPoint(1) /\ UNCHANGED <<aggVars, lifeVars, sensVars>>
  \/ addResidualDrill(1) /\ UNCHANGED <<aggVars, lifeVars, sensVars>>
  \/ addResidualTying(1) /\ UNCHANGED <<aggVars, lifeVars, sensVars>>
  \/ addResidualDirector(1) /\ UNCHANGED <<aggVars, lifeVars, sensVars>>
  \/ addResidualConstraint(1) /\ UNCHANGED <<aggVars, lifeVars, sensVars>>
  \/ \E c \in ElemCalls, junk \in StackValues :
       addJacobianEnter(1, c, junk) /\ UNCHANGED <<aggVars, lifeVars, sensVars>>
  \/ addJacobianPoint(1) /\ UNCHANGED <<aggVars, lifeVars, sensVars>>
  \/ addJacobianDrill(1) /\ UNCHANGED <<aggVars, lifeVars, sensVars>>
  \/ addJacobianTying(1) /\ UNCHANGED <<aggVars, lifeVars, sensVars>>
  \/ addJacobianTyingHessian(1) /\ UNCHANGED <<aggVars, lifeVars, sensVars>>
  \/ addJacobianDirector(1) /\ UNCHANGED <<aggVars, lifeVars, sensVars>>
  \/ addJacobianConstraint(1) /\ UNCHANGED <<aggVars, lifeVars, sensVars>>
  \/ \E c \in ElemCalls, junk \in StackValues :
       getOutputDataEnter(1, c, junk) /\ UNCHANGED <<aggVars, lifeVars, sensVars>>
  \/ getOutputDataNode(1) /\ UNCHANGED <<aggVars, lifeVars, sensVars>>
  \/ getOutputDataReturn(1) /\ UNCHANGED <<aggVars, lifeVars, sensVars>>
  \/ Release(1) /\ UNCHANGED <<aggVars, lifeVars, sensVars>>

\* The calls that run side by side: one of each member function, on
\* elements that share or do not share their constitutive object.
ConcCalls ==
  {MkCall("computeEnergies", [shear |-> 1, transform |-> "refaxis"],
          Constitutive(Zeros(9), Zeros(3)), Dense, Dynamic, "", {}),
   MkCall("addResidual", [shear |-> 1, transform |-> "refaxis"],
          Constitutive(FromSeq(<<1, 2, 1, 1, 0, 1, 1, 0, 1>>), FromSeq(<<2, 1, 3>>)),
          Dense, Dynamic, "", {}),
   MkCall("addJacobian", [shear |-> 1, transform |-> "refaxis"],
          Constitutive(FromSeq(<<1, 2, 1, 1, 0, 1, 1, 0, 1>>), FromSeq(<<2, 1, 3>>)),
          Dense, Dynamic, "", {}),
   MkCall("getOutputData", [shear |-> 0, transform |-> "natural"],
          Constitutive(FromSeq(<<1, 2, 1, 1, 0, 1, 1, 0, 1>>), Zeros(3)),
          Dense, Static, "TACS_BEAM_OR_SHELL_ELEMENT", OutputFlags)}
\* Every thread calls the member functions one after the other; the steps of
\* the threads interleave.
ConcNext ==
  \/ \E k \in Threads, c \in ConcCalls, junk \in StackValues :
       computeEnergiesEnter(k, c, junk) /\ UNCHANGED <<aggVars, lifeVars, sensVars>>
  \/ \E k \in Threads : computeEnergiesPoint(k) /\ UNCHANGED <<aggVars, lifeVars, sensVars>>
  \/ \E k \in Threads : computeEnergiesReturn(k) /\ UNCHANGED <<aggVars, lifeVars, sensVars>>
  \/ \E k \in Threads, c \in ConcCalls, junk \in StackValues :
       addResidualEnter(k, c, junk) /\ UNCHANGED <<aggVars, lifeVars, sensVars>>
  \/ \E k \in Threads : addResidualPoint(k) /\ UNCHANGED <<aggVars, lifeVars, sensVars>>
  \/ \E k \in Threads : addResidualDrill(k) /\ UNCHANGED <<aggVars, lifeVars, sensVars>>
  \/ \E k \in Threads : addResidualTying(k) /\ UNCHANGED <<aggVars, lifeVars, sensVars>>
  \/ \E k \in Threads : addResidualDirector(k) /\ UNCHANGED <<aggVars, lifeVars, sensVars>>
  \/ \E k \in Threads : addResidualConstraint(k) /\ UNCHANGED <<aggVars, lifeVars, sensVars>>
  \/ \E k \in Threads, c \in ConcCalls, junk \in StackValues :
       addJacobianEnter(k, c, junk) /\ UNCHANGED <<aggVars, lifeVars, sensVars>>
  \/ \E k \in Threads : addJacobianPoint(k) /\ UNCHANGED <<aggVars, lifeVars, sensVars>>
  \/ \E k \in Threads : addJacobianDrill(k) /\ UNCHANGED <<aggVars, lifeVars, sensVars>>
  \/ \E k \in Threads : addJacobianTying(k) /\ UNCHANGED <<aggVars, lifeVars, sensVars>>
  \/ \E k \in Threads : addJacobianTyingHessian(k) /\ UNCHANGED <<aggVars, lifeVars, sensVars>>
  \/ \E k \in Threads : addJacobianDirector(k) /\ UNCHANGED <<aggVars, lifeVars, sensVars>>
  \/ \E k \in Threads : addJacobianConstraint(k) /\ UNCHANGED <<aggVars, lifeVars, sensVars>>
  \/ \E k \in Threads, c \in ConcCalls, junk \in StackValues :
       getOutputDataEnter(k, c, junk) /\ UNCHANGED <<aggVars, lifeVars, sensVars>>
  \/ \E k \in Threads : getOutputDataNode(k) /\ UNCHANGED <<aggVars, lifeVars, sensVars>>
  \/ \E k \in Threads : getOutputDataReturn(k) /\ UNCHANGED <<aggVars, lifeVars, sensVars>>
  \/ \E k \in Threads : Release(k) /\ UNCHANGED <<aggVars, lifeVars, sensVars>>

(***************************************************************************)
(* Claims about the thermal shell element                                  *)
(***************************************************************************)
\* Thread k is back from member function op and its caller has not yet
\* taken the results.
Done(k, op) == ecall[k].op = op /\ epc[k] = "done"
\* The record of the quadrature points (or nodes) the call of thread k has
\* passed.
Log(k) == scratch[k].log
Unknowns == 0..(size - 1)
\* What addResidual and addJacobian have added to entry j of res and to
\* entry (i, j) of mat.
ResAdded(k, j) == out[k].res[j] - ecall[k].res0[j]
MatAdded(k, i, j) == out[k].mat[i * size + j] - ecall[k].mat0[i * size + j]
\* The energies and the residual of the element and the arguments of c at
\* the state vars and the rates dvars, each from a call of its own.
EnergiesAt(c, vars_, dvars_) ==
  computeEnergies([c EXCEPT !.vars = vars_, !.dvars = dvars_], JunkFrame(0))
ResidualAt(c, vars_) ==
  addResidual([c EXCEPT !.vars = vars_, !.res0 = Zs], JunkFrame(0)).res
\* Four times the derivative of the potential energy with respect to
\* unknown j, plus four times the rate of the momentum of unknown j (the
\* derivative of the kinetic energy with respect to rate j, taken at the
\* accelerations): central differences with the step 2, exact for the
\* quadratic energies.
EnergyGradient4(c, j) ==
  (EnergiesAt(c, Perturb(c.vars, j, 2), c.dvars).Ue
     - EnergiesAt(c, Perturb(c.vars, j, -2), c.dvars).Ue)
  + (EnergiesAt(c, c.vars, Perturb(c.ddvars, j, 2)).Te
     - EnergiesAt(c, c.vars, Perturb(c.ddvars, j, -2)).Te)
\* Four times the derivative of the residual with respect to unknown j.
ResidualDerivative4(c, j) ==
  MatAdd(ResidualAt(c, Perturb(c.vars, j, 2)),
         MatScale(-1, ResidualAt(c, Perturb(c.vars, j, -2))))

\* C1: for any nodal state and any thermal-strain law, what addResidual adds
\* to res equals, component by component, the gradient of the energy
\* functional whose kinetic and potential parts computeEnergies returns.
C1_ResidualIsEnergyGradient ==
  \A k \in Threads :
    Done(k, "addResidual") =>
      \A j \in Unknowns : 4 * ResAdded(k, j) = EnergyGradient4(ecall[k], j)

\* C2: with alpha = 1 and beta = gamma = 0, every entry (i, j) of what
\* addJacobian adds to mat equals the derivative of entry i of the residual
\* of addResidual with respect to unknown j, temperature rows and columns
\* included.
C2_JacobianIsResidualDerivative ==
  \A k \in Threads :
    (Done(k, "addJacobian") /\ ecall[k].alpha = 1 /\ ecall[k].beta = 0
       /\ ecall[k].gamma = 0) =>
      \A j \in Unknowns :
        LET column == ResidualDerivative4(ecall[k], j)
        IN  \A i \in Unknowns : 4 * MatAdded(k, i, j) = column[i]

\* C3: for any state and any alpha, beta, gamma, what addJacobian adds to
\* mat is symmetric, and the 2 x 2 conduction block q2xi of every
\* quadrature point has q2xi[1] = q2xi[2].
C3_JacobianSymmetric ==
  \A k \in Threads :
    ecall[k].op = "addJacobian" =>
      /\ \A n \in 1..Len(Log(k)) : Log(k)[n].q2xi[1] = Log(k)[n].q2xi[2]
      /\ epc[k] = "done" =>
           \A i, j \in Unknowns : MatAdded(k, i, j) = MatAdded(k, j, i)

\* A finished addJacobian with alpha, beta, gamma all different, on the
\* sheared element with conduction, at a state with every unknown in play;
\* the conduction block has off-diagonal entries and the matrix has
\* off-diagonal entries between displacements, between temperatures and
\* between rotations.
C3_Witness ==
  /\ Done(1, "addJacobian")
  /\ ecall[1].alpha = 2 /\ ecall[1].beta = 1 /\ ecall[1].gamma = 3
  /\ ecall[1].vars = Dense
  /\ ecall[1].transform = "refaxis"
  /\ Len(Log(1)) = getNumQuadraturePoints
  /\ \A n \in 1..Len(Log(1)) : Log(1)[n].q2xi[1] # 0
  /\ MatAdded(1, 0, 8) # 0
  /\ MatAdded(1, 3, 10) # 0
  /\ MatAdded(1, 4, 12) # 0

\* The translations of the element: every node is displaced by the same
\* vector, the rotations are zero, and the nodal temperatures are whatever
\* they are.  In a static call the rates and the accelerations are zero.
Translated(c) == c.vars \in Translations
StaticCall(c) == c.dvars = Zs /\ c.ddvars = Zs

C6_ZeroThermalStrainNoOp ==
  \A k \in Threads :
    ecall[k].op \in {"addResidual", "addJacobian", "getOutputData"} =>
      \A n \in 1..Len(Log(k)) :
        Log(k)[n].eth = Zeros(9) =>
          /\ \A i \in 0..8 : Log(k)[n].em[i] = Log(k)[n].e[i]
          /\ Log(k)[n].s = evalStress(ecall[k].con, Log(k)[n].e)

\* An addJacobian past its loop on an element without thermal expansion,
\* with temperatures that are not zero: at every quadrature point the
\* thermal strain is zero, the total strain is not, in the drill slot
\* either, and the stress is not zero.
C6_Witness ==
  /\ ecall[1].op = "addJacobian"
  /\ ecall[1].con.ath = Zeros(9)
  /\ Len(Log(1)) = getNumQuadraturePoints
  /\ \A n \in 1..Len(Log(1)) :
       /\ Log(1)[n].t # 0
       /\ Log(1)[n].eth = Zeros(9)
       /\ Log(1)[n].e # Zeros(9)
       /\ Log(1)[n].s # Zeros(9)
  /\ \E n \in 1..Len(Log(1)) : Log(1)[n].e[8] # 0

\* The outputs of the call c run alone, with nothing on the stack.
RunAlone(c) ==
  CASE c.op = "computeEnergies" -> computeEnergies(c, JunkFrame(0))
    [] c.op = "addResidual" -> addResidual(c, JunkFrame(0))
    [] c.op = "addJacobian" -> addJacobian(c, JunkFrame(0))
    [] c.op = "getOutputData" -> getOutputData(c, JunkFrame(0))

\* C9: for any interleaving of concurrent calls with distinct output
\* buffers, after any earlier calls and whatever they left on the stack,
\* each call returns exactly the outputs it returns when run alone on the
\* same arguments.
C9_CallsIndependent ==
  \A k \in Threads : epc[k] = "done" => out[k] = RunAlone(ecall[k])

\* Thread 1 is back from addJacobian while thread 2, which entered
\* addResidual on an element with the same constitutive object, is between
\* its loop and its return.
C9_Witness ==
  /\ Done(1, "addJacobian")
  /\ ecall[2].op = "addResidual"
  /\ epc[2] \in {"drill", "tying", "director", "constraint"}
  /\ ecall[2].con = ecall[1].con
  /\ out[2].res # ecall[2].res0
  /\ out[1].mat # ecall[1].mat0

\* The frame and the caller's arrays of addJacobian after its loop over the
\* quadrature points, for the arguments of c with the coefficients alpha,
\* beta, gamma and with res and mat zero at the call.
JacobianLoopWith(c, alpha, beta, gamma) ==
  LET cc == [c EXCEPT !.alpha = alpha, !.beta = beta, !.gamma = gamma,
                      !.res0 = Zs, !.mat0 = Zeros(size * size)]
  IN  JacobianLoop(cc, Start(cc, JacobianBegin(cc, JunkFrame(0))), 0)
\* The call c on an element without mass, at rest; the call c on an element
\* without stiffness and without conductivity.
Massless(c) ==
  [c EXCEPT !.con.moments = Zeros(3), !.dvars = Zs, !.ddvars = Zs]
Stiffnessless(c) ==
  [c EXCEPT !.con.Cs = Zeros(NUM_TANGENT_STIFFNESS_ENTRIES), !.con.Kt = Zeros(3)]
\* The arrays of the frame that collect second derivatives of the strain
\* energy during the loop.
StiffnessArrays(f) == <<f.d2etn, f.d2d, f.d2du, f.d2ety, f.d2etyu, f.d2etyd>>
ScaleArrays(a, arrays) ==
  [n \in DOMAIN arrays |-> Arr([i \in DOMAIN arrays[n] |-> a * arrays[n][i]])]

\* C12: what the loop over the quadrature points of addJacobian adds to mat
\* is alpha times its stiffness terms (strain Hessian, conduction block)
\* plus gamma times the translational mass, and the stiffness terms it
\* collects in the frame (drilling stiffness, director and tying-strain
\* second derivatives) are proportional to alpha; with alpha = 1, beta =
\* gamma = 0 the loop adds no mass or damping term to mat, and with alpha =
\* beta = gamma = 0 it adds nothing to mat.
C12_LoopScalesWithAlphaGamma ==
  \A k \in Threads :
    At(k, "addJacobian", "drill") =>
      LET c == ecall[k]
          stiff == JacobianLoopWith(c, 1, 0, 0)
          mass == JacobianLoopWith(c, 0, 0, 1)
      IN  /\ \A i, j \in Unknowns :
               MatAdded(k, i, j) = c.alpha * stiff.o.mat[i * size + j]
                                     + c.gamma * mass.o.mat[i * size + j]
          /\ StiffnessArrays(scratch[k]) = ScaleArrays(c.alpha, StiffnessArrays(stiff.f))
          /\ stiff.o.mat = JacobianLoopWith(Massless(c), 1, 0, 0).o.mat
          /\ mass.o.mat = JacobianLoopWith(Stiffnessless(c), 0, 0, 1).o.mat
          /\ \A i, j \in Unknowns :
               mass.o.mat[i * size + j] # 0 =>
                 i % vars_per_node < 3 /\ j % vars_per_node = i % vars_per_node
          /\ JacobianLoopWith(c, 0, 0, 0).o.mat = Zeros(size * size)
          /\ (c.alpha = 0 /\ c.beta = 0 /\ c.gamma = 0) => out[k].mat = c.mat0

\* An addJacobian past its loop with alpha = 2, beta = 1, gamma = 3 on an
\* element with stiffness, conductivity and mass: the loop has added a mass
\* term and a conduction term to mat, and has collected a drilling
\* stiffness and second derivatives for the directors and the tying strains.
C12_Witness ==
  /\ At(1, "addJacobian", "drill")
  /\ ecall[1].con.Kt # Zeros(3)
  /\ ecall[1].vars = Dense
  /\ ecall[1].alpha = 2 /\ ecall[1].beta = 1 /\ ecall[1].gamma = 3
  /\ MatAdded(1, 0, 0) # 0
  /\ MatAdded(1, 3, 10) # 0
  /\ scratch[1].d2etn # Zeros(num_nodes * num_nodes)
  /\ scratch[1].d2d # Zeros(dsize * dsize)
  /\ scratch[1].d2ety # Zeros(NUM_TYING_POINTS * NUM_TYING_POINTS)
  /\ JacobianLoopWith(ecall[1], 0, 0, 1).o.mat[0] # 0
  /\ JacobianLoopWith(ecall[1], 1, 0, 0).o.mat[3 * size + 10] # 0

\* The quantities of the nodes in a frame of addResidual or addJacobian.
NodeFields(f) ==
  <<f.fn, f.Xdn, f.XdinvTn, f.Tn, f.u0xn, f.Ctn, f.etn, f.d, f.ddot, f.dddot, f.ety>>
\* What the chain rule of the directors takes from the frame.
DirectorInputs(f) == <<f.dd, f.dTdot>>
\* Thread k does not move.
Stays(k) ==
  /\ ecall'[k] = ecall[k] /\ epc'[k] = epc[k] /\ equad'[k] = equad[k]
  /\ scratch'[k] = scratch[k] /\ out'[k] = out[k]
\* A step of thread k in addResidual or addJacobian from phase a to phase b.
Moves(k, a, b) ==
  /\ epc[k] = a /\ epc'[k] = b
  /\ ecall'[k].op \in {"addResidual", "addJacobian"}
\* The steps of a call of addResidual or addJacobian in the order of the
\* code.
PhaseStep(k) ==
  \/ Stays(k)
  \/ ecall'[k].op \notin {"addResidual", "addJacobian"}
  \/ /\ Moves(k, "idle", "loop")
     /\ equad'[k] = 0 /\ Len(scratch'[k].log) = 0
     /\ out'[k].res = ecall'[k].res0
     /\ NodeFields(scratch'[k])
          = NodeFields(NodeQuantities(ecall'[k], JunkFrame(0), TRUE))
  \/ /\ Moves(k, "loop", "loop") \/ Moves(k, "loop", "drill")
     /\ equad'[k] = equad[k] + 1
     /\ Len(scratch'[k].log) = equad'[k]
     /\ epc'[k] = "drill" <=> equad'[k] = getNumQuadraturePoints
     /\ NodeFields(scratch'[k]) = NodeFields(scratch[k])
  \/ /\ Moves(k, "drill", "tying")
     /\ scratch'[k] = scratch[k]
  \/ /\ \/ ecall[k].op = "addResidual" /\ Moves(k, "tying", "director")
        \/ ecall[k].op = "addJacobian" /\ Moves(k, "tying", "tyingHessian")
     /\ scratch'[k].dTdot = scratch[k].dTdot
  \/ /\ ecall[k].op = "addJacobian" /\ Moves(k, "tyingHessian", "director")
     /\ DirectorInputs(scratch'[k]) = DirectorInputs(scratch[k])
  \/ /\ Moves(k, "director", "constraint")
     /\ scratch'[k] = scratch[k]
  \/ /\ Moves(k, "constraint", "done")
     /\ Len(scratch'[k].log) = getNumQuadraturePoints

\* C13: in addResidual and in addJacobian the quantities of the nodes are
\* computed once, before the first quadrature point; after the last point
\* come the push of the drilling strain, then the transpose push of the tying
\* strain, then (in addJacobian, the second-order tying terms and) the chain
\* rule of the directors, then the rotation constraint, last; from the chain
\* rule of the directors on nothing is added to dd or dTdot.
C13_PhaseOrder == [][\A k \in Threads : PhaseStep(k)]_allVars

\* An addJacobian about to take the chain rule of the directors, all its
\* quadrature points passed: the push of the tying strain has changed dd
\* since the end of the loop, and dTdot is not zero.
C13_Witness ==
  /\ At(1, "addJacobian", "director")
  /\ Len(Log(1)) = getNumQuadraturePoints
  /\ scratch[1].dd
       # JacobianLoopWith(ecall[1], ecall[1].alpha, ecall[1].beta, ecall[1].gamma).f.dd
  /\ scratch[1].dTdot # Zeros(dsize)
  /\ scratch[1].dTdot
       = JacobianLoopWith(ecall[1], ecall[1].alpha, ecall[1].beta, ecall[1].gamma).f.dTdot

\* C14: in computeEnergies, addResidual, addJacobian and getOutputData, at
\* every evaluation point, e[8] is the drilling strain interpolated from the
\* drill strains etn of the nodes, whatever evalStrain left in that slot, and
\* e[0..7] are as evalStrain returned them.
C14_DrillSlotOverwritten ==
  \A k \in Threads :
    epc[k] \notin {"idle", "done"} =>
      \A n \in 1..Len(Log(k)) :
        /\ Log(k)[n].e[8] = interpFields(1, 1, Log(k)[n].pt, scratch[k].etn, 0)[0]
        /\ \A i \in 0..7 : Log(k)[n].e[i] = Log(k)[n].raw[i]

\* A getOutputData past its last node on a state with every unknown in play:
\* at some node the drilling strain is not what evalStrain left in slot 8,
\* and the other slots of the strain are not all zero.
C14_Witness ==
  /\ At(1, "getOutputData", "finish")
  /\ Len(Log(1)) = num_vis_nodes
  /\ \E n \in 1..Len(Log(1)) :
       /\ Log(1)[n].e[8] # Log(1)[n].raw[8]
       /\ Log(1)[n].e[8] # 0
       /\ \E i \in 0..7 : Log(1)[n].raw[i] # 0

\* The call c on an element that conducts no heat: the heat flux and its
\* tangent are zero.
Insulated(c) == [c EXCEPT !.con.Kt = Zeros(3)]
TemperatureEntry(j) == j % vars_per_node = 3

\* C15: the heat-flux term changes only the temperature entries of the
\* residual (index vars_per_node*i + 3), and the conduction tangent changes
\* only the temperature-temperature entries of the matrix (row
\* vars_per_node*i + 3, column vars_per_node*j + 3): every other entry of res
\* and mat is what the same call leaves on an element without conduction.
C15_ConductionTouchesTemperatureOnly ==
  \A k \in Threads :
    /\ Done(k, "addResidual") =>
         LET base == addResidual(Insulated(ecall[k]), JunkFrame(0))
         IN  \A j \in Unknowns : ~TemperatureEntry(j) => out[k].res[j] = base.res[j]
    /\ Done(k, "addJacobian") =>
         LET base == addJacobian(Insulated(ecall[k]), JunkFrame(0))
         IN  /\ \A j \in Unknowns : ~TemperatureEntry(j) => out[k].res[j] = base.res[j]
             /\ \A i, j \in Unknowns :
                  ~(TemperatureEntry(i) /\ TemperatureEntry(j)) =>
                    out[k].mat[i * size + j] = base.mat[i * size + j]

\* A finished addJacobian on a conducting element with a temperature
\* gradient: the temperature entries of res and the temperature-temperature
\* entries of mat, on and off the diagonal, are not what the element without
\* conduction gets.
C15_Witness ==
  /\ Done(1, "addJacobian")
  /\ ecall[1].con.Kt # Zeros(3)
  /\ \A n \in 1..Len(Log(1)) : Log(1)[n].q # Zeros(2)
  /\ LET base == addJacobian(Insulated(ecall[1]), JunkFrame(0))
     IN  /\ \A i \in 0..(num_nodes - 1) :
              out[1].res[vars_per_node * i + 3] # base.res[vars_per_node * i + 3]
         /\ out[1].mat[3 * (size + 1)] # base.mat[3 * (size + 1)]
         /\ out[1].mat[3 * size + vars_per_node + 3] # base.mat[3 * size + vars_per_node + 3]

\* The call c with the arrays res and mat holding res0 and mat0 at the call.
WithBuffers(c, res0, mat0) == [c EXCEPT !.res0 = res0, !.mat0 = mat0]
\* Arrays with entries that differ from one another.
Ramp(n) == Arr([i \in 0..(n - 1) |-> ((3 * i) % 11) - 5])
ArraySum(a, b) == Arr([i \in DOMAIN a |-> a[i] + b[i]])

\* C16: addResidual and addJacobian only add to res and mat: whatever the
\* arrays hold at the call, after the call they hold that plus a
\* contribution r (K) that depends on the other arguments only.
C16_PurelyAdditive ==
  \A k \in Threads :
    /\ Done(k, "addResidual") =>
         LET c == ecall[k]
             r == addResidual(WithBuffers(c, Zs, <<>>), JunkFrame(0)).res
         IN  /\ out[k].res = ArraySum(c.res0, r)
             /\ addResidual(WithBuffers(c, Ramp(size), <<>>), JunkFrame(0)).res
                  = ArraySum(Ramp(size), r)
    /\ Done(k, "addJacobian") =>
         LET c == ecall[k]
             zero == addJacobian(WithBuffers(c, Zs, Zeros(size * size)), JunkFrame(0))
             ramp == addJacobian(WithBuffers(c, Ramp(size), Ramp(size * size)),
                                 JunkFrame(0))
         IN  /\ out[k].res = ArraySum(c.res0, zero.res)
             /\ out[k].mat = ArraySum(c.mat0, zero.mat)
             /\ ramp.res = ArraySum(Ramp(size), zero.res)
             /\ ramp.mat = ArraySum(Ramp(size * size), zero.mat)

\* A finished addJacobian whose arrays held 5 in every entry at the call:
\* res and mat have changed, in displacement, temperature and rotation
\* entries, and entries that received nothing still hold 5.
C16_Witness ==
  /\ Done(1, "addJacobian")
  /\ ecall[1].res0 = Const(size, 5)
  /\ ecall[1].mat0 = Const(size * size, 5)
  /\ ResAdded(1, 0) # 0 /\ ResAdded(1, 3) # 0 /\ ResAdded(1, 4) # 0
  /\ MatAdded(1, 0, 0) # 0 /\ MatAdded(1, 3, 3) # 0 /\ MatAdded(1, 4, 4) # 0
  /\ \E i, j \in Unknowns : out[1].mat[i * size + j] = 5

\* What the loops of addResidual and addJacobian accumulate for the residual:
\* res itself and the arrays dd, dTdot, detn and dety of the frame.
ResidualAccumulators(f, o) == <<o.res, f.dd, f.dTdot, f.detn, f.dety>>
\* The frame and the caller's arrays of addResidual after its loop, for the
\* arguments of c.
ResidualLoopOf(c) == ResidualLoop(c, Start(c, ResidualBegin(c, JunkFrame(0))), 0)
\* At every quadrature point thread k has passed, evalStress of the
\* mechanical strain is the stress the call has computed.
StressAgrees(k) ==
  \A n \in 1..Len(Log(k)) : evalStress(ecall[k].con, Log(k)[n].em) = Log(k)[n].s

\* C18: where evalStress(em) is the stress of the tangent stiffness applied
\* to em, what the loop of addJacobian accumulates in res, dd, dTdot, detn and
\* dety is what the loop of addResidual accumulates for the same arguments,
\* and what addJacobian has added to res at its return is what addResidual
\* adds, whatever alpha, beta and gamma are.
C18_JacobianResidualMatches ==
  \A k \in Threads :
    (ecall[k].op = "addJacobian" /\ StressAgrees(k)) =>
      /\ epc[k] = "drill" =>
           ResidualAccumulators(scratch[k], out[k])
             = ResidualAccumulators(ResidualLoopOf(ecall[k]).f, ResidualLoopOf(ecall[k]).o)
      /\ epc[k] = "done" => out[k].res = addResidual(ecall[k], JunkFrame(0)).res

\* A finished addJacobian with alpha = 2, beta = 1, gamma = 3 on an element
\* with thermal expansion and conduction, with rates and accelerations: the
\* stresses agree at every quadrature point and are not zero, and res has
\* received displacement, temperature and rotation entries.
C18_Witness ==
  /\ Done(1, "addJacobian")
  /\ ecall[1].alpha = 2 /\ ecall[1].beta = 1 /\ ecall[1].gamma = 3
  /\ ecall[1].con.ath # Zeros(9)
  /\ ecall[1].con.Kt # Zeros(3)
  /\ Len(Log(1)) = getNumQuadraturePoints
  /\ StressAgrees(1)
  /\ \A n \in 1..Len(Log(1)) : Log(1)[n].s # Zeros(9)
  /\ ResAdded(1, 0) # 0 /\ ResAdded(1, 3) # 0 /\ ResAdded(1, 4) # 0

\* The fields of a record of getOutputData in the order of the code, and the
\* number of cells of each.
FieldOrder ==
  <<"TACS_OUTPUT_NODES", "TACS_OUTPUT_DISPLACEMENTS", "TACS_OUTPUT_STRAINS",
    "TACS_OUTPUT_STRESSES", "TACS_OUTPUT_EXTRAS">>
FieldWidth == <<3, 6, 9, 9, 4>>
\* Where field i starts in a record when only the fields of write_flag take
\* space, and the width W of the record.
RECURSIVE FieldStart(_, _)
FieldStart(write_flag, i) ==
  IF i = 1 THEN 0
  ELSE FieldStart(write_flag, i - 1)
         + (IF FieldOrder[i - 1] \in write_flag THEN FieldWidth[i - 1] ELSE 0)
RecordWidth(write_flag) == FieldStart(write_flag, 6)
\* What field i of the record of visualization node n holds in the call of
\* thread k: the node location, the first six unknowns of the node, the
\* strain, the stress and the extras of the pass of the node.
FieldValues(k, n, i) ==
  CASE i = 1 -> Arr([j \in 0..2 |-> ecall[k].Xpts[3 * n + j]])
    [] i = 2 -> OutputDisplacements(ecall[k].vars, n)
    [] i = 3 -> Log(k)[n + 1].e
    [] i = 4 -> Log(k)[n + 1].s
    [] i = 5 -> OutputExtras(ecall[k], Log(k)[n + 1].e)

\* C11: with etype = TACS_BEAM_OR_SHELL_ELEMENT, the fields selected by
\* write_flag are written for each visualization node as contiguous segments
\* in the order nodes (3), displacements (6), strains (9), stresses (9),
\* extras (4); a field that is not selected takes no space; the record of
\* node n starts n*W cells after the start of the array, W being the sum of
\* the selected widths whatever ld_data is; and exactly num_vis_nodes*W cells
\* are written.
C11_OutputLayout ==
  \A k \in Threads :
    (ecall[k].op = "getOutputData" /\ ecall[k].etype = "TACS_BEAM_OR_SHELL_ELEMENT") =>
      LET W == RecordWidth(ecall[k].write_flag)
          nodes == Len(Log(k))
      IN  /\ epc[k] # "done" => scratch[k].dpos = nodes * W
          /\ epc[k] = "done" => nodes = num_vis_nodes
          /\ \A n \in 0..(nodes - 1), i \in 1..5 :
               FieldOrder[i] \in ecall[k].write_flag =>
                 \A j \in 0..(FieldWidth[i] - 1) :
                   out[k].data[n * W + FieldStart(ecall[k].write_flag, i) + j]
                     = FieldValues(k, n, i)[j]
          /\ \A idx \in DOMAIN out[k].data :
               idx >= nodes * W => out[k].data[idx] = ecall[k].data0[idx]

\* A finished getOutputData that wrote strains and stresses only, into an
\* array whose leading dimension is larger than the record: the record of
\* the second node starts at cell 18 with a strain that is not zero, its
\* stress starts at cell 27, and the cells from 54 on are as they were.
C11_Witness ==
  /\ Done(1, "getOutputData")
  /\ ecall[1].etype = "TACS_BEAM_OR_SHELL_ELEMENT"
  /\ ecall[1].write_flag = {"TACS_OUTPUT_STRAINS", "TACS_OUTPUT_STRESSES"}
  /\ ecall[1].ld_data = 31
  /\ RecordWidth(ecall[1].write_flag) = 18
  /\ Log(1)[2].e # Zeros(9)
  /\ \A j \in 0..8 : /\ out[1].data[18 + j] = Log(1)[2].e[j]
                      /\ out[1].data[27 + j] = Log(1)[2].s[j]
  /\ \E j \in 0..8 : out[1].data[18 + j] # ecall[1].data0[18 + j]
  /\ \A idx \in 54..(DataLen - 1) : out[1].data[idx] = ecall[1].data0[idx]

\* The cells of field i of the record of visualization node n in the array
\* of thread k.
Segment(k, n, i) ==
  LET start == n * RecordWidth(ecall[k].write_flag) + FieldStart(ecall[k].write_flag, i)
  IN  Arr([j \in 0..(FieldWidth[i] - 1) |-> out[k].data[start + j]])
\* The thermal strain of the temperature of the pass of node n.
ThermalStrainAt(k, n) == evalThermalStrain(ecall[k].con, Log(k)[n + 1].t)

\* C20: in getOutputData the strain segment of a node holds the total strain
\* e, the stress segment holds the stress of the mechanical strain e - eth,
\* and the first cell of the extras holds evalFailure of the total strain e;
\* where the thermal strain of the node is not zero, the strain the failure
\* index is computed from is not the strain the stress is computed from.
C20_FailureOnTotalStrain ==
  \A k \in Threads :
    (Done(k, "getOutputData") /\ ecall[k].etype = "TACS_BEAM_OR_SHELL_ELEMENT") =>
      \A n \in 0..(num_vis_nodes - 1) :
        LET e == Log(k)[n + 1].e
            eth == ThermalStrainAt(k, n)
            em == Arr([i \in 0..8 |-> e[i] - eth[i]])
        IN  /\ "TACS_OUTPUT_STRAINS" \in ecall[k].write_flag => Segment(k, n, 3) = e
            /\ "TACS_OUTPUT_STRESSES" \in ecall[k].write_flag =>
                 Segment(k, n, 4) = evalStress(ecall[k].con, em)
            /\ "TACS_OUTPUT_EXTRAS" \in ecall[k].write_flag =>
                 Segment(k, n, 5)[0] = evalFailure(ecall[k].con, e)
            /\ eth # Zeros(9) => em # e

\* A finished getOutputData with every field written, on an element with
\* thermal expansion at temperatures that are not zero: at the first node the
\* thermal strain is not zero, the stress written is not the stress of the
\* strain written, and the failure index written is not the failure index
\* of the mechanical strain.
C20_Witness ==
  /\ Done(1, "getOutputData")
  /\ ecall[1].etype = "TACS_BEAM_OR_SHELL_ELEMENT"
  /\ ecall[1].write_flag = OutputFlags
  /\ ThermalStrainAt(1, 0) # Zeros(9)
  /\ Segment(1, 0, 3) = Log(1)[1].e
  /\ Segment(1, 0, 4) # evalStress(ecall[1].con, Segment(1, 0, 3))
  /\ Segment(1, 0, 5)[0] = evalFailure(ecall[1].con, Log(1)[1].e)
  /\ Segment(1, 0, 5)[0] # evalFailure(ecall[1].con, Log(1)[1].em)

(***************************************************************************)
(* Claims about the average-temperature function                           *)
(***************************************************************************)
\* Every process has run one evaluation cycle: initEvaluation, its
\* elementWiseEval calls, one completed finalEvaluation, and nothing since.
CycleDone == \A p \in Procs : hist[p] = "final"

\* C4: after a full evaluation cycle getFunctionValue returns on every
\* process the same value, the quotient of the sum over all processes and
\* contributing points of detJ*weight*temp by the sum of detJ*weight: the two
\* sums are reduced separately, before the division.
C4_GlobalWeightedAverage ==
  CycleDone =>
    \A p \in Procs :
      getFunctionValue(p) = Divide(SumOver(gint, Procs), SumOver(gvol, Procs))

\* A finished cycle in which two processes contributed different volumes and
\* different local averages (the mean of the local averages is then another
\* number than the weighted average).
C4_Witness ==
  /\ CycleDone
  /\ \E p, q \in Procs :
       /\ gvol[p] > 0 /\ gvol[q] > gvol[p]
       /\ gint[p] * gvol[q] # gint[q] * gvol[p]
       /\ getFunctionValue(p).kind = "finite"
       /\ getFunctionValue(p) # Divide(gint[p], gvol[p])
       /\ getFunctionValue(p) # Divide(gint[q], gvol[q])

\* C17: initEvaluation sets both accumulators to zero on the process, so
\* that whatever the earlier calls left, the accumulators hold the
\* contributions made since initEvaluation only, and after a full cycle on
\* every process they hold the sums of this cycle's contributions: the same
\* cycle gives the same getFunctionValue after any earlier cycles.
C17_CycleStartsFromZero ==
  \A p \in Procs :
    /\ hist[p] = "init" =>
         volume[p] = gvol[p] /\ integral_temp[p] = gint[p]
    /\ CycleDone =>
         /\ volume[p] = SumOver(gvol, Procs)
         /\ integral_temp[p] = SumOver(gint, Procs)

\* The second reduction of a run has completed a full cycle on every
\* process: the accumulators held the sums of an earlier reduction when the
\* cycle started, and the cycle has contributed a volume and a temperature
\* integral that are not zero.
C17_Witness ==
  /\ CycleDone
  /\ ncoll = MaxCollectives
  /\ \A p \in Procs : nfinals[p] = 1
  /\ SumOver(gvol, Procs) > 0
  /\ SumOver(gint, Procs) > 0

\* No quadrature point has contributed on process p since its construction
\* or its last initEvaluation: the measures detJ*weight of the points are
\* not zero, so that neither the points of positive measure nor the others
\* have added anything.
NoPoint(p) == hist[p] \in {"new", "init", "reducing", "final"} /\ gvol[p] = 0 /\ gposV[p] = 0
\* getFunctionValue evaluates 0/0 on process p.
ZeroByZero(p) ==
  /\ volume[p] = 0 /\ integral_temp[p] = 0
  /\ getFunctionValue(p) = Divide(0, 0)
  /\ getFunctionValue(p).kind = NaN
\* Where nothing has contributed the call evaluates 0/0: on a process right
\* after its construction, on a process after initEvaluation as long as
\* its elements have no basis or count < 1, and on every process after a
\* cycle in which no element of any process contributed.
NothingContributed ==
  /\ \A p \in Procs : (hist[p] \in {"new", "init"} /\ NoPoint(p)) => ZeroByZero(p)
  /\ (CycleDone /\ \A q \in Procs : NoPoint(q)) => \A p \in Procs : ZeroByZero(p)
\* One step as seen from the two accumulators of process p: both are left
\* alone, both are set to zero (initEvaluation), both receive the
\* contributions of the same points of one element (elementWiseEval: the
\* sums of detJ*weight and of detJ*weight*temp over the contributing points,
\* and nothing when there is none), or both receive their sums over the
\* processes (finalEvaluation).
UpdatedTogether(p) ==
  \/ volume'[p] = volume[p] /\ integral_temp'[p] = integral_temp[p]
  \/ /\ hist'[p] = "init" /\ nevals'[p] = 0 /\ nfinals'[p] = 0
     /\ volume'[p] = 0 /\ integral_temp'[p] = 0
  \/ /\ nevals'[p] = nevals[p] + 1
     /\ hist[p] = "init" =>
          /\ volume'[p] - volume[p] = gvol'[p] - gvol[p]
          /\ integral_temp'[p] - integral_temp[p] = gint'[p] - gint[p]
  \/ /\ nfinals'[p] = nfinals[p] + 1
     /\ volume'[p] = AllreduceSum(1) /\ integral_temp'[p] = AllreduceSum(2)
\* An elementWiseEval of process p in which no point contributes changes
\* neither accumulator.
NoPointNoUpdate(p) ==
  (nevals'[p] = nevals[p] + 1 /\ hist[p] = "init"
     /\ gvol'[p] = gvol[p] /\ gposV'[p] = gposV[p]) =>
    volume'[p] = volume[p] /\ integral_temp'[p] = integral_temp[p]

\* C21: getFunctionValue divides integral_temp by volume with no test of
\* the divisor: wherever no quadrature point has contributed (after
\* construction, after initEvaluation, after a cycle whose elements have no
\* basis or return count < 1) volume is 0 and the call evaluates 0/0, a NaN,
\* and no error is reported; and every step updates volume and
\* integral_temp together, from the same quadrature points.
C21_UnguardedDivision ==
  /\ []NothingContributed
  /\ [][\A p \in Procs : UpdatedTogether(p) /\ NoPointNoUpdate(p)]_allVars

\* A finished cycle in which every process evaluated an element, a thermal
\* shell on one process and an element of another class on another, and no
\* point contributed: volume is 0 on every process and getFunctionValue is
\* 0/0.
C21_Witness ==
  /\ CycleDone
  /\ \A p \in Procs : nevals[p] = 1 /\ NoPoint(p) /\ nfinals[p] = 1
  /\ \E p, q \in Procs : gshell[p] /\ ~gshell[q]
  /\ \A p \in Procs : volume[p] = 0 /\ getFunctionValue(p).kind = NaN

\* The true global volume and temperature integral: the sums over the
\* processes of what their points have contributed since their last
\* initEvaluation.
TrueVolume == SumOver(tvol, Procs)
TrueIntegral == SumOver(tint, Procs)
\* Every process has called initEvaluation, its elementWiseEval calls and
\* then finalEvaluation once (AllFinal1) or twice (AllFinal2), and nothing
\* since.
AllFinal1 == \A p \in Procs : cyc[p] = "final1"
AllFinal2 == \A p \in Procs : cyc[p] = "final2"
\* The sum of detJ*weight over the points of the element that contribute.
SeedSum(element) == SumMeasure(element, Contributing(element), FALSE)
\* What the entry held that the sensitivity call accumulated into.
SensBase == IF sens.kind = "SV" THEN 0 ELSE sens.held

\* C19 as stated: once every process has called initEvaluation, the member
\* volume (when it is not zero) equals the true global volume only if
\* exactly one finalEvaluation has completed since the last initEvaluation
\* and no elementWiseEval has run afterwards.
C19_VolumeTrueOnlyAfterOneFinal ==
  \A p \in Procs :
    (/\ \A q \in Procs : cyc[q] # "new"
     /\ volume[p] # 0
     /\ volume[p] = TrueVolume) => AllFinal1

\* C19 amended: getElementSVSens and addElementDVSens add, for every
\* contributing point, the factor times detJ*weight/volume with the member
\* volume as it stands at the call, getElementSVSens onto zero and
\* addElementDVSens onto what dfdx held; the member volume is the true
\* global volume when every process has completed exactly one
\* finalEvaluation since its initEvaluation and nothing since; after a
\* second finalEvaluation on every process volume and integral_temp are the
\* process count times the true sums, getFunctionValue is unchanged and the
\* sensitivities are the true ones divided by the process count.
C19_SensitivitiesUseCurrentVolume ==
  /\ sens # NoSens =>
       LET V == volume[sens.proc]
           m == SeedSum(sens.element)
       IN  /\ sens.volume = V
           /\ V # 0 => sens.result = Divide(SensBase * V + sens.factor * m, V)
           /\ (V = 0 /\ m # 0) => sens.result.kind # "finite"
           /\ Contributing(sens.element) = {} => sens.result = Finite(SensBase)
           /\ (AllFinal2 /\ TrueVolume # 0) =>
                ValScale(NumProcs, ValAdd(sens.result, Finite(-SensBase)))
                  = Divide(sens.factor * m, TrueVolume)
  /\ AllFinal1 => \A p \in Procs : volume[p] = TrueVolume
  /\ AllFinal2 =>
       \A p \in Procs :
         /\ volume[p] = NumProcs * TrueVolume
         /\ integral_temp[p] = NumProcs * TrueIntegral
         /\ getFunctionValue(p) = Divide(TrueIntegral, TrueVolume)

\* addElementDVSens has returned on a process after a second finalEvaluation
\* on every process: dfdx held 5, the element has a contributing point, the
\* member volume is twice the true global volume, which is not zero, and
\* dfdx has received half the true sensitivity.
C19_Witness ==
  /\ AllFinal2
  /\ sens # NoSens
  /\ sens.kind = "DV"
  /\ sens.held = 5
  /\ sens.factor = 2
  /\ TrueVolume > 0
  /\ SeedSum(sens.element) > 0
  /\ sens.volume = NumProcs * TrueVolume
  /\ sens.result # Finite(5)
  /\ sens.result = Divide(5 * NumProcs * TrueVolume + 2 * SeedSum(sens.element),
                          NumProcs * TrueVolume)

\* C7: a quadrature point whose measure detJ*weight is not positive is not
\* accumulated as if it were valid: between initEvaluation and
\* finalEvaluation the volume holds the measures of the valid points only.
C7_NonPositiveMeasureNotAccumulated ==
  \A p \in Procs : hist[p] = "init" => volume[p] = gposV[p]

\* C10: a thermal shell element handed to elementWiseEval contributes its
\* quadrature points (of positive measure) to the volume.
C10_ThermalShellContributes ==
  \A p \in Procs : (hist[p] = "init" /\ gshell[p]) => volume[p] > gvol[p]

(***************************************************************************)
(* Claims about the reference counts                                       *)
(***************************************************************************)
Holders(c) ==
  {e \in ElemIds : live[e].alive /\ (live[e].transform = c \/ live[e].con = c)}

\* C8: after any sequence of constructions and destructions, the reference
\* count of each collaborator is the count its owner holds plus the number of
\* live elements holding it.
C8_RefcountBalance ==
  \A c \in Collaborators :
    refcount[c] = callerRefs[c] + Cardinality(Holders(c))

(***************************************************************************)
(* Specifications                                                          *)
(***************************************************************************)
Init == AggInit /\ LifeInit /\ ElemInit /\ SensInit

SpecAgg == Init /\ [][AggNext]_allVars
SpecLife == Init /\ [][LifeNext]_allVars
SpecElem == Init /\ [][ElemNext]_allVars
SpecConc == Init /\ [][ConcNext]_allVars
SpecSens == Init /\ [][SensNext]_allVars

====
